---- MODULE Spec2Model ----
\* Model of the label-addressed surface sequence of libzmx (src/libzmx.py)
\* on top of the position-addressed host lens model reached through
\* zemaxclient.Connection (src/zemaxclient.py).
EXTENDS Integers, Sequences, FiniteSets, TLC

\* ---------------------------------------------------------------- bounds
MaxInit == 5        \* longest host model a SurfaceSequence is constructed over
MaxStart == 2       \* longest host model the sequence operations start from
MaxOps == 2         \* calls that may change the model, per run
MaxListOps == 3     \* calls mirrored on the Python list, per run
MaxCommentOps == 2  \* comment and tag writes, per run

\* ------------------------------------------------------- program constants
max_surf_id == 2147483647
max_len == 32

\* ---------------------------------------------------------------- values
\* Python strings are sequences of one-character strings; None is NONE.
NONE == <<"None">>
EMPTY == <<>>
WhiteSpace == {" "}
Variants == {"DGRATING"}
surface_types == {"STANDARD", "DGRATING", "COORDBRK"}
\* random.randint(1, max_surf_id): two of the labels it can return
RandLabels == {x \in {1, 2} : x <= max_surf_id}
ScanOrders == {"lo", "hi"}
NoHandle == [id |-> 0, cls |-> "none", uid |-> 0]

\* A surface record of the host model.  uid is a ghost field naming the
\* record itself; the program never reads it.
\* val holds the cells written so far (surface data, parameters, extra
\* data), solve the solves set so far, by solve code.
NoCells == [x \in {} |-> 0]
NewSurf(u) ==
    [uid |-> u, label |-> 0, type |-> "STANDARD", comment |-> EMPTY,
     val |-> NoCells, solve |-> NoCells]
\* a table with key k mapped to v
Store(f, k, v) == [x \in DOMAIN f \cup {k} |-> IF x = k THEN v ELSE f[x]]
Lookup(f, k, d) == IF k \in DOMAIN f THEN f[k] ELSE d

Min(S) == CHOOSE x \in S : \A y \in S : x <= y
Max(S) == CHOOSE x \in S : \A y \in S : x >= y

\* Host positions are 0-based; TLA+ sequences are 1-based.
At(h, p) == h[p + 1]
Positions(h) == 0..(Len(h) - 1)
Labels(h) == {At(h, p).label : p \in Positions(h)}
Uids(h) == {At(h, p).uid : p \in Positions(h)}
PosOfUid(h, u) == CHOOSE p \in Positions(h) : At(h, p).uid = u
UniqueLabels(h) == \A p, q \in Positions(h) : p # q => At(h, p).label # At(h, q).label

\* ------------------------------------------------------------ host model
\* Insert 0 => no effect; Insert 1 => after object; Insert n-1 => before
\* image; Insert i (i >= n) => as Insert n-1.
HostInsertSurface(h, surf, u) ==
    LET p == IF surf >= Len(h) THEN Len(h) - 1 ELSE surf
    IN  IF p < 1 THEN h
        ELSE SubSeq(h, 1, p) \o <<NewSurf(u)>> \o SubSeq(h, p + 1, Len(h))

\* Delete 0 => no effect; Delete 1 => deletes surface 1; Delete n-1 =>
\* deletes the last surface; Delete i (i >= n) => as Delete n-1.
HostDeleteSurface(h, surf) ==
    LET p == IF surf >= Len(h) THEN Len(h) - 1 ELSE surf
    IN  IF p < 1 THEN h
        ELSE SubSeq(h, 1, p) \o SubSeq(h, p + 2, Len(h))

HostGetSystem(h) == Len(h) - 1

HostGetLabel(h, surf) == At(h, surf).label

\* The host echoes the stored label; a position that does not exist stores
\* nothing.
HostSetLabel(h, surf, label) ==
    IF surf \in Positions(h) THEN [h EXCEPT ![surf + 1].label = label] ELSE h

HostSetLabelEcho(h, surf, label) ==
    IF surf \in Positions(h) THEN label ELSE 0 - 1

\* Position carrying the label, -1 when there is none.  Which position the
\* host reports when several carry it is the host's choice (scan order).
HostFindLabel(h, label, scan) ==
    LET m == {p \in Positions(h) : At(h, p).label = label}
    IN  IF m = {} THEN 0 - 1
        ELSE IF scan = "lo" THEN Min(m) ELSE Max(m)

\* ------------------------------------------------------- SurfaceSequence
seq_len(h) == HostGetSystem(h) + 1

\* variant: a negative index wraps one position short
translate_id_short(h, id) ==
    LET a == IF id < 0 THEN id + seq_len(h) - 1 ELSE id
    IN  IF a < 0 THEN 0 ELSE a

translate_id(h, id) ==
    LET a == IF id < 0 THEN id + seq_len(h) ELSE id
    IN  IF a < 0 THEN 0 ELSE a

\* requests sent to the host while translating an index
translate_calls(id) == IF id < 0 THEN <<"GetSystem">> ELSE <<>>

\* registry lookup with the UnknownSurface fallback
surface_factory(type) == IF type \in surface_types THEN type ELSE "UnknownSurface"

\* result of a call: host model after it, exception raised ("none" if it
\* returned), requests sent in order, returned handle, returned number.
\* A request is named by its command; a field request also by its code
\* ("SetSurfaceData,0" stores the type, "SetSurfaceData,1" the comment).
Res(h, e, c, r, n) == [h |-> h, err |-> e, calls |-> c, ret |-> r, num |-> n]

\* the result r of a call made after the requests c had been sent
After(c, r) == [r EXCEPT !.calls = c \o @]

\* ------------------------------------------------------ CommentParameter
IsBlank(s) == \A i \in 1..Len(s) : s[i] \in WhiteSpace

LStripCount(s) ==
    IF \E i \in 1..Len(s) : s[i] \notin WhiteSpace
    THEN Min({i \in 1..Len(s) : s[i] \notin WhiteSpace}) - 1
    ELSE Len(s)

\* s matches \s*#([^#]+)#$
IsTagged(s) ==
    LET k == LStripCount(s)
        t == SubSeq(s, k + 1, Len(s))
    IN  /\ Len(t) >= 3
        /\ t[1] = "#"
        /\ t[Len(t)] = "#"
        /\ \A i \in 2..(Len(t) - 1) : t[i] # "#"

TagOf(s) ==
    LET k == LStripCount(s)
    IN  SubSeq(s, k + 2, Len(s) - 1)

\* tag_patt = (.*?)\s*(?:#([^#]+)#)?$ : the shortest prefix whose remainder
\* is white space followed by an optional #tag# and the end of the string.
tag_patt_match(raw) ==
    LET ok(k) == LET s == SubSeq(raw, k + 1, Len(raw)) IN IsBlank(s) \/ IsTagged(s)
        k == Min({j \in 0..Len(raw) : ok(j)})
        s == SubSeq(raw, k + 1, Len(raw))
    IN  [comment |-> SubSeq(raw, 1, k),
         tag |-> IF IsTagged(s) THEN TagOf(s) ELSE NONE]

rstrip(s) ==
    IF IsBlank(s) THEN EMPTY
    ELSE SubSeq(s, 1, Max({i \in 1..Len(s) : s[i] \notin WhiteSpace}))

\* tag_format = "%s #%s#"
tag_format(comment, tag) == rstrip(comment) \o <<" ", "#">> \o tag \o <<"#">>

\* variant: the tag is left out of the stored text
encode_untagged(comment, tag) == comment

encode_comment_and_tag(comment, tag) ==
    IF tag # NONE /\ tag # EMPTY THEN tag_format(comment, tag) ELSE comment

\* ------------------------------------------------- host field store/fetch
\* code 0 is the surface type, code 1 the comment
HostSetSurfaceData(h, surf, code, data) ==
    IF code = 0 THEN [h EXCEPT ![surf + 1].type = data]
    ELSE IF code = 1 THEN [h EXCEPT ![surf + 1].comment = data]
    ELSE [h EXCEPT ![surf + 1].val = Store(@, <<"data", code>>, data)]

\* a cell never written reads as 0
HostGetSurfaceData(h, surf, code) ==
    IF code = 0 THEN At(h, surf).type
    ELSE IF code = 1 THEN At(h, surf).comment
    ELSE Lookup(At(h, surf).val, <<"data", code>>, 0)

HostSetSurfaceParameter(h, surf, code, data) ==
    [h EXCEPT ![surf + 1].val = Store(@, <<"aux", code>>, data)]
HostGetSurfaceParameter(h, surf, code) == Lookup(At(h, surf).val, <<"aux", code>>, 0)
HostSetExtra(h, surf, column, value) ==
    [h EXCEPT ![surf + 1].val = Store(@, <<"extra", column>>, value)]
HostGetExtra(h, surf, column) == Lookup(At(h, surf).val, <<"extra", column>>, 0)

\* SetSolve,surf,code,type,args...: args is <<type, arg, ...>>
HostSetSolve(h, surf, code, args) ==
    [h EXCEPT ![surf + 1].solve = Store(@, code, args)]
\* the response starts with the solve type; a code never set has type 0
HostGetSolve(h, surf, code) == Lookup(At(h, surf).solve, code, <<0>>)

\* ------------------------------------------------------------ BaseSurface
get_surf_num(h, hd, scan) == HostFindLabel(h, hd.id, scan)

\* variant: the position guard is applied to the failed label lookup
remove_unchecked(h, hd, scan) ==
    LET n == get_surf_num(h, hd, scan)
    IN  IF n < 1 THEN Res(h, "IndexError", <<"FindLabel">>, NoHandle, n)
        ELSE Res(HostDeleteSurface(h, n), "none", <<"FindLabel", "DeleteSurface">>, NoHandle, n)

remove(h, hd, scan) ==
    LET n == get_surf_num(h, hd, scan)
    IN  IF n < 0 THEN Res(h, "SurfaceLabelError", <<"FindLabel">>, NoHandle, n)
        ELSE IF n < 1 THEN Res(h, "IndexError", <<"FindLabel">>, NoHandle, n)
        ELSE Res(HostDeleteSurface(h, n), "none", <<"FindLabel", "DeleteSurface">>, NoHandle, n)

comment_get_comment_and_tag(h, hd, scan) ==
    LET n == get_surf_num(h, hd, scan)
    IN  IF n < 0 THEN [err |-> "SurfaceLabelError", calls |-> <<"FindLabel">>,
                       comment |-> NONE, tag |-> NONE]
        ELSE LET m == tag_patt_match(HostGetSurfaceData(h, n, 1))
             IN  [err |-> "none", calls |-> <<"FindLabel", "GetSurfaceData,1">>,
                  comment |-> m.comment, tag |-> m.tag]

\* variant: a text of exactly max_len characters is refused too
comment_set_comment_and_tag_strict(h, hd, comment, tag, scan) ==
    LET value == encode_comment_and_tag(comment, tag)
        n == get_surf_num(h, hd, scan)
    IN  IF Len(value) >= max_len THEN Res(h, "ValueError", <<>>, NoHandle, 0)
        ELSE IF n < 0 THEN Res(h, "SurfaceLabelError", <<"FindLabel">>, NoHandle, n)
        ELSE Res(HostSetSurfaceData(h, n, 1, value), "none",
                 <<"FindLabel", "SetSurfaceData,1">>, NoHandle, n)

comment_set_comment_and_tag(h, hd, comment, tag, scan) ==
    LET value == encode_comment_and_tag(comment, tag)
        n == get_surf_num(h, hd, scan)
    IN  IF Len(value) > max_len THEN Res(h, "ValueError", <<>>, NoHandle, 0)
        ELSE IF n < 0 THEN Res(h, "SurfaceLabelError", <<"FindLabel">>, NoHandle, n)
        ELSE Res(HostSetSurfaceData(h, n, 1, value), "none",
                 <<"FindLabel", "SetSurfaceData,1">>, NoHandle, n)

\* variant: the stored tag is not written back
comment_set_value_untagged(h, hd, comment, scan) ==
    LET store(g) ==
            IF g.err # "none" THEN Res(h, g.err, g.calls, NoHandle, 0)
            ELSE After(g.calls, comment_set_comment_and_tag(h, hd, comment, NONE, scan))
    IN  store(comment_get_comment_and_tag(h, hd, scan))

comment_set_value(h, hd, comment, scan) ==
    LET store(g) ==
            IF g.err # "none" THEN Res(h, g.err, g.calls, NoHandle, 0)
            ELSE After(g.calls, comment_set_comment_and_tag(h, hd, comment, g.tag, scan))
    IN  store(comment_get_comment_and_tag(h, hd, scan))

\* comment.tag = tag
comment_set_tag(h, hd, tag, scan) ==
    LET store(g) ==
            IF g.err # "none" THEN Res(h, g.err, g.calls, NoHandle, 0)
            ELSE After(g.calls, comment_set_comment_and_tag(h, hd, g.comment, tag, scan))
    IN  store(comment_get_comment_and_tag(h, hd, scan))

\* Parameter.set_value of the type field (column 0, no fix code)
type_set_value(h, hd, value, scan) ==
    LET n == get_surf_num(h, hd, scan)
    IN  IF n < 0 THEN Res(h, "SurfaceLabelError", <<"FindLabel">>, NoHandle, n)
        ELSE Res(HostSetSurfaceData(h, n, 0, value), "none",
                 <<"FindLabel", "FindLabel", "SetSurfaceData,0">>, NoHandle, n)

\* UnknownSurface.__init__ followed by the type store of create
create(h, cls, hd, comment, scan) ==
    LET made(r2) ==
            [r2 EXCEPT !.ret = IF r2.err = "none" THEN hd ELSE NoHandle, !.num = 0]
        typed(r1) ==
            IF r1.err # "none" THEN [r1 EXCEPT !.ret = NoHandle, !.num = 0]
            ELSE made(After(r1.calls, type_set_value(r1.h, hd, cls, scan)))
    IN  typed(IF comment = NONE THEN Res(h, "none", <<>>, hd, 0)
              ELSE comment_set_value(h, hd, comment, scan))

\* ------------------------------------------------------- SurfaceSequence
getitem(h, idx, id) ==
    LET surfno == translate_id(h, idx)
        lbl == HostGetLabel(h, surfno)
        h1 == IF lbl = 0 THEN HostSetLabel(h, surfno, id) ELSE h
        nid == IF lbl = 0 THEN id ELSE lbl
        c == translate_calls(idx) \o <<"GetLabel">>
             \o (IF lbl = 0 THEN <<"SetLabel">> ELSE <<>>) \o <<"GetSurfaceData,0">>
    IN  Res(h1, "none", c,
            [id |-> nid, cls |-> surface_factory(HostGetSurfaceData(h1, surfno, 0)),
             uid |-> At(h, surfno).uid], surfno)

\* variant: the guard lets position 0 through to the host
delitem_from_zero(h, idx) ==
    LET surfno == translate_id(h, idx)
    IN  IF surfno < 0 THEN Res(h, "IndexError", translate_calls(idx), NoHandle, surfno)
        ELSE Res(HostDeleteSurface(h, surfno), "none",
                 translate_calls(idx) \o <<"DeleteSurface">>, NoHandle, surfno)

delitem(h, idx) ==
    LET surfno == translate_id(h, idx)
    IN  IF surfno < 1 THEN Res(h, "IndexError", translate_calls(idx), NoHandle, surfno)
        ELSE Res(HostDeleteSurface(h, surfno), "none",
                 translate_calls(idx) \o <<"DeleteSurface">>, NoHandle, surfno)

insert_new(h, idx, cls, comment, id, u, scan) ==
    LET surfno == translate_id(h, idx)
        c1 == translate_calls(idx) \o <<"InsertSurface", "SetLabel">>
        hd == [id |-> id, cls |-> cls, uid |-> u]
        label(h1) ==
            IF HostSetLabelEcho(h1, surfno, id) # id
            THEN Res(h1, "ValueError", c1, NoHandle, surfno)
            ELSE [After(c1, create(HostSetLabel(h1, surfno, id), cls, hd, comment, scan))
                    EXCEPT !.num = surfno]
    IN  IF surfno < 1 THEN Res(h, "IndexError", translate_calls(idx), NoHandle, surfno)
        ELSE label(HostInsertSurface(h, surfno, u))

append_new(h, cls, comment, id, u, scan) ==
    insert_new(h, 0 - 1, cls, comment, id, u, scan)

\* for i in range(1, len-1): del self[i]   (the range is fixed on entry)
RECURSIVE empty_loop(_, _, _)
empty_loop(h, i, stop) ==
    IF i >= stop THEN h
    ELSE empty_loop(delitem(h, i).h, i + 1, stop)

\* Outcomes of _enforce_id_uniqueness from position i on with the labels
\* seen so far in ids: one outcome per sequence of allocator draws.
RECURSIVE enforce_from(_, _, _)
enforce_from(h, i, ids) ==
    IF i >= seq_len(h) THEN {h}
    ELSE LET lbl == HostGetLabel(h, i)
         IN  IF lbl \in ids
             THEN UNION {enforce_from(HostSetLabel(h, i, id), i + 1, ids \cup {id})
                           : id \in RandLabels}
             ELSE enforce_from(h, i + 1, ids \cup {lbl})

enforce_id_uniqueness(h) == enforce_from(h, 0, {})

\* SurfaceSequence.__init__ (copy_from_editor = False)
init_outcomes(h, empty) ==
    LET h1 == IF empty THEN empty_loop(h, 1, seq_len(h) - 1) ELSE h
    IN  enforce_id_uniqueness(h1)

\* ------------------------------------------------------------ parameters
\* Python None where a code or a pickup format is expected
NoCode == 0 - 1
NoPickup == [solve_code |-> NoCode, has_scale |-> FALSE, has_offset |-> FALSE,
             has_col_ref |-> FALSE]
PickupFormat(solve_code, has_scale, has_offset, has_col_ref) ==
    [solve_code |-> solve_code, has_scale |-> has_scale, has_offset |-> has_offset,
     has_col_ref |-> has_col_ref]

\* Parameter.__init__; kind tells which Get/Set pair the class uses and
\* set names the request that stores a literal
Parameter(name, kind, column, type, solve_code, pickup_conf, fix_code, can_optimise) ==
    [name |-> name, kind |-> kind, column |-> column, type |-> type,
     solve_code |-> solve_code, pickup_conf |-> pickup_conf, fix_code |-> fix_code,
     can_optimise |-> can_optimise, reverse_pickup_terms |-> kind = "aux",
     set |-> CASE kind = "aux" -> "SetSurfaceParameter"
               [] kind = "extra" -> "SetExtra"
               [] OTHER -> "SetSurfaceData"]
AuxParameter(name, column, type) ==
    Parameter(name, "aux", column, type, column + 4, PickupFormat(2, TRUE, TRUE, TRUE), 0, TRUE)
ExtraParameter(name, column, type) ==
    Parameter(name, "extra", column, type, column + 1000,
              PickupFormat(2, TRUE, FALSE, FALSE), 0, TRUE)
CurvatureParameter ==
    Parameter("curvature", "data", 2, "float", 0, PickupFormat(4, TRUE, FALSE, FALSE), 0, TRUE)
ThicknessParameter ==
    Parameter("thickness", "data", 3, "float", 1, PickupFormat(5, TRUE, TRUE, FALSE), 0, TRUE)
SemiDiameterParameter ==
    Parameter("semidia", "data", 5, "float", 3, PickupFormat(2, TRUE, FALSE, FALSE), 1, FALSE)
glass == Parameter("glass", "data", 4, "str", 2, PickupFormat(2, FALSE, FALSE, FALSE), 0, FALSE)
ignored == Parameter("ignored", "data", 20, "bool", NoCode, NoPickup, NoCode, FALSE)
radius_of_rotation == AuxParameter("radius_of_rotation", 1, "float")
num_poly_terms == ExtraParameter("num_poly_terms", 1, "int")
\* the fields of a Toroidal handle that are modelled
Toroidal ==
    {CurvatureParameter, ThicknessParameter, SemiDiameterParameter, glass, ignored,
     radius_of_rotation, num_poly_terms}

\* Python values: t is the Python type, v the value
Py(t, v) == [t |-> t, v |-> v]
IsPickupExpression(value) == value.t = "PickupExpression"
\* PickupExpression(surface, parameter, offset, scale)
PickupExpression(surface, parameter, offset, scale) ==
    [t |-> "PickupExpression", surface |-> surface, src_param |-> parameter,
     offset |-> offset, scale |-> scale]
\* int(value)
py_int(value) ==
    IF value.t = "bool" THEN Py("int", IF value.v THEN 1 ELSE 0) ELSE Py("int", value.v)
\* Connection._str and the host's reading of it: what the host keeps
host_value(value) ==
    IF value.t = "bool" THEN (IF value.v THEN "True" ELSE "False") ELSE value.v
\* self._type(value) in get_value, after float(value) for bool and int
py_typed(type, x) ==
    IF type = "bool" THEN Py("bool", x # 0) ELSE Py(type, x)
\* Python ==: True is 1, False is 0, an int equals the float of its value
py_number(value) == IF value.t = "bool" THEN (IF value.v THEN 1 ELSE 0) ELSE value.v
py_eq(a, b) ==
    IF a.t = "str" \/ b.t = "str" THEN a.t = b.t /\ a.v = b.v
    ELSE py_number(a) = py_number(b)

\* Parameter._client_set_value and its overrides
client_set_value(h, f, n, x) ==
    CASE f.kind = "aux" -> HostSetSurfaceParameter(h, n, f.column, x)
      [] f.kind = "extra" -> HostSetExtra(h, n, f.column, x)
      [] OTHER -> HostSetSurfaceData(h, n, f.column, x)
\* Parameter._client_get_value and its overrides
client_get_value(h, f, n) ==
    CASE f.kind = "aux" -> HostGetSurfaceParameter(h, n, f.column)
      [] f.kind = "extra" -> HostGetExtra(h, n, f.column)
      [] OTHER -> HostGetSurfaceData(h, n, f.column)

\* Parameter.fix
param_fix(h, hd, f, scan) ==
    LET n == get_surf_num(h, hd, scan)
    IN  IF n < 0 THEN Res(h, "SurfaceLabelError", <<"FindLabel">>, NoHandle, n)
        ELSE Res(HostSetSolve(h, n, f.solve_code, <<f.fix_code>>), "none",
                 <<"FindLabel", "SetSolve">>, NoHandle, n)

\* variant: the solve is set whether or not the field can be optimised
param_vary_any(h, hd, f, scan) ==
    LET n == get_surf_num(h, hd, scan)
    IN  IF n < 0 THEN Res(h, "SurfaceLabelError", <<"FindLabel">>, NoHandle, n)
        ELSE Res(HostSetSolve(h, n, f.solve_code, <<1>>), "none",
                 <<"FindLabel", "SetSolve">>, NoHandle, n)

\* Parameter.vary
param_vary(h, hd, f, scan) ==
    IF ~f.can_optimise THEN Res(h, "NotImplementedError", <<>>, NoHandle, 0)
    ELSE LET n == get_surf_num(h, hd, scan)
         IN  IF n < 0 THEN Res(h, "SurfaceLabelError", <<"FindLabel">>, NoHandle, n)
             ELSE Res(HostSetSolve(h, n, f.solve_code, <<1>>), "none",
                      <<"FindLabel", "SetSolve">>, NoHandle, n)

\* variant: the modifiers are never reversed
pickup_modifiers_plain(f, e) ==
    (IF f.pickup_conf.has_scale THEN <<e.scale>> ELSE <<>>)
    \o (IF f.pickup_conf.has_offset THEN <<e.offset>> ELSE <<>>)

\* the modifiers of PickupFormat.set_pickup before the column reference
pickup_modifiers(f, e) ==
    LET m == (IF f.pickup_conf.has_scale THEN <<e.scale>> ELSE <<>>)
             \o (IF f.pickup_conf.has_offset THEN <<e.offset>> ELSE <<>>)
    IN  IF f.reverse_pickup_terms THEN [i \in 1..Len(m) |-> m[Len(m) + 1 - i]] ELSE m

\* variant: the request names the target's position as the source
pickup_request_from_target(h, hd, f, e, modifiers, scan) ==
    LET n == get_surf_num(h, hd, scan)
        src == get_surf_num(h, e.surface, scan)
    IN  IF n < 0 THEN Res(h, "SurfaceLabelError", <<"FindLabel">>, NoHandle, n)
        ELSE IF src < 0
             THEN Res(h, "SurfaceLabelError", <<"FindLabel", "FindLabel">>, NoHandle, n)
        ELSE Res(HostSetSolve(h, n, f.solve_code,
                              <<f.pickup_conf.solve_code, n>> \o modifiers),
                 "none", <<"FindLabel", "FindLabel", "SetSolve">>, NoHandle, n)

\* the SetSolve request at the end of PickupFormat.set_pickup
pickup_request(h, hd, f, e, modifiers, scan) ==
    LET n == get_surf_num(h, hd, scan)
        src == get_surf_num(h, e.surface, scan)
    IN  IF n < 0 THEN Res(h, "SurfaceLabelError", <<"FindLabel">>, NoHandle, n)
        ELSE IF src < 0
             THEN Res(h, "SurfaceLabelError", <<"FindLabel", "FindLabel">>, NoHandle, n)
        ELSE Res(HostSetSolve(h, n, f.solve_code,
                              <<f.pickup_conf.solve_code, src>> \o modifiers),
                 "none", <<"FindLabel", "FindLabel", "SetSolve">>, NoHandle, n)

\* variant: a scale or an offset the format has no place for is left out
set_pickup_dropping(h, hd, f, e, scan) ==
    IF f.pickup_conf.has_col_ref
    THEN pickup_request(h, hd, f, e,
                        pickup_modifiers(f, e) \o <<e.src_param.solve_code + 1>>, scan)
    ELSE IF f.column # e.src_param.column THEN Res(h, "TypeError", <<>>, NoHandle, 0)
    ELSE pickup_request(h, hd, f, e, pickup_modifiers(f, e), scan)

\* PickupFormat.set_pickup(surfp, pickup_expr) of surfp's format
set_pickup(h, hd, f, e, scan) ==
    IF ~f.pickup_conf.has_scale /\ e.scale # 1 THEN Res(h, "TypeError", <<>>, NoHandle, 0)
    ELSE IF ~f.pickup_conf.has_offset /\ e.offset # 0
         THEN Res(h, "TypeError", <<>>, NoHandle, 0)
    ELSE IF f.pickup_conf.has_col_ref
         THEN (IF e.src_param.solve_code = NoCode
               THEN Res(h, "TypeError", <<>>, NoHandle, 0)
               ELSE pickup_request(h, hd, f, e,
                        pickup_modifiers(f, e) \o <<e.src_param.solve_code + 1>>, scan))
    ELSE IF f.column # e.src_param.column THEN Res(h, "TypeError", <<>>, NoHandle, 0)
    ELSE pickup_request(h, hd, f, e, pickup_modifiers(f, e), scan)

\* variant: the pickup is installed and the field fixed after it
link_value_to_fixed(h, hd, f, e, scan) ==
    LET fixed(r) == IF r.err # "none" THEN r ELSE After(r.calls, param_fix(r.h, hd, f, scan))
    IN  IF f.pickup_conf = NoPickup THEN Res(h, "AttributeError", <<>>, NoHandle, 0)
        ELSE fixed(set_pickup(h, hd, f, e, scan))

\* Parameter.link_value_to: a field without pickup format has None there
link_value_to(h, hd, f, e, scan) ==
    IF f.pickup_conf = NoPickup THEN Res(h, "AttributeError", <<>>, NoHandle, 0)
    ELSE set_pickup(h, hd, f, e, scan)

\* the end of Parameter.set_value: int(value) for a bool field, then
\* _client_set_value
store_literal(h, hd, f, value, scan) ==
    LET x == host_value(IF f.type = "bool" THEN py_int(value) ELSE value)
        n == get_surf_num(h, hd, scan)
    IN  IF n < 0 THEN Res(h, "SurfaceLabelError", <<"FindLabel">>, NoHandle, n)
        ELSE Res(client_set_value(h, f, n, x), "none", <<"FindLabel", f.set>>, NoHandle, n)

\* variant: a literal is stored without fixing the field first
param_set_value_unfixed(h, hd, f, value, scan) ==
    IF IsPickupExpression(value) THEN link_value_to(h, hd, f, value, scan)
    ELSE After(<<"FindLabel">>, store_literal(h, hd, f, value, scan))

\* Parameter.set_value
param_set_value(h, hd, f, value, scan) ==
    IF IsPickupExpression(value) THEN link_value_to(h, hd, f, value, scan)
    ELSE IF get_surf_num(h, hd, scan) < 0
         THEN Res(h, "SurfaceLabelError", <<"FindLabel">>, NoHandle, 0 - 1)
    ELSE IF f.fix_code = NoCode
         THEN After(<<"FindLabel">>, store_literal(h, hd, f, value, scan))
    ELSE LET stored(r) ==
                 IF r.err # "none" THEN After(<<"FindLabel">>, r)
                 ELSE After(<<"FindLabel">> \o r.calls, store_literal(r.h, hd, f, value, scan))
         IN  stored(param_fix(h, hd, f, scan))

\* Parameter.get_value
param_get_value(h, hd, f, scan) ==
    LET n == get_surf_num(h, hd, scan)
    IN  IF n < 0 THEN Res(h, "SurfaceLabelError", <<"FindLabel">>, NONE, n)
        ELSE Res(h, "none", <<"FindLabel", "FindLabel", "Get">>,
                 py_typed(f.type, client_get_value(h, f, n)), n)

\* int(vals[0]): vals is the response text, so vals[0] is its first
\* character, the first decimal digit of the solve type
RECURSIVE first_digit(_)
first_digit(x) == IF x < 10 THEN x ELSE first_digit(x \div 10)

solve_codes == 17
\* the loop of fix_variables from code i on, fixed being the codes so far
RECURSIVE fix_from(_, _, _, _)
fix_from(h, n, i, fixed) ==
    IF i >= solve_codes THEN [h |-> h, fixed |-> fixed]
    ELSE IF first_digit(HostGetSolve(h, n, i)[1]) = 1
         THEN fix_from(HostSetSolve(h, n, i, <<0>>), n, i + 1, Append(fixed, i))
    ELSE fix_from(h, n, i + 1, fixed)

\* UnknownSurface.fix_variables
fix_variables(h, hd, scan) ==
    LET n == get_surf_num(h, hd, scan)
        done(r) == Res(r.h, "none", <<"FindLabel">>, r.fixed, n)
    IN  IF n < 0 THEN Res(h, "SurfaceLabelError", <<"FindLabel">>, <<>>, n)
        ELSE done(fix_from(h, n, 0, <<>>))

\* the cell a solve code belongs to: 0..4 are curvature, thickness, glass,
\* semi-diameter and conic, 5..16 the parameters 1..12, above 1000 the
\* extra-data columns
cell_of_code(code) ==
    IF code <= 4 THEN <<"data", code + 2>>
    ELSE IF code < 1000 THEN <<"aux", code - 4>>
    ELSE <<"extra", code - 1000>>
\* the solve type that is a pickup, for a solve code
pickup_type(code) == IF code = 0 THEN 4 ELSE IF code = 1 THEN 5 ELSE 2
is_aux_code(code) == code > 4 /\ code < 1000

\* the value the host computes for a pickup solve a = <<type, source
\* surface, modifiers...>> on solve code code: scale * source + offset,
\* where a parameter solve carries offset, scale and the source column and
\* any other solve carries scale and offset as far as they were sent
pickup_value(h, code, a) ==
    LET offset == IF is_aux_code(code) THEN a[3] ELSE IF Len(a) >= 4 THEN a[4] ELSE 0
        scale == IF is_aux_code(code) THEN a[4] ELSE IF Len(a) >= 3 THEN a[3] ELSE 1
        cell == IF is_aux_code(code) THEN cell_of_code(a[5] - 1) ELSE cell_of_code(code)
        x == Lookup(At(h, a[2]).val, cell, 0)
    IN  IF scale = 1 /\ offset = 0 THEN x ELSE scale * x + offset

\* the cells of surface record s after the host has recomputed its pickups
updated_cells(h, s) ==
    LET picked == {c \in DOMAIN s.solve : s.solve[c][1] = pickup_type(c) /\ Len(s.solve[c]) >= 2}
        cells == DOMAIN s.val \cup {cell_of_code(c) : c \in picked}
    IN  [k \in cells |->
            IF \E c \in picked : cell_of_code(c) = k
            THEN pickup_value(h, CHOOSE c \in picked : cell_of_code(c) = k,
                              s.solve[CHOOSE c \in picked : cell_of_code(c) = k])
            ELSE s.val[k]]

\* GetUpdate as the host answers it: every pickup is recomputed
HostGetUpdate(h) == [q \in 1..Len(h) |-> [h[q] EXCEPT !.val = updated_cells(h, h[q])]]

\* ----------------------------------------------------- coordinate return
\* the fields of a CoordinateBreak handle
offset_x == AuxParameter("offset_x", 1, "float")
offset_y == AuxParameter("offset_y", 2, "float")
rotate_x == AuxParameter("rotate_x", 3, "float")
rotate_y == AuxParameter("rotate_y", 4, "float")
rotate_z == AuxParameter("rotate_z", 5, "float")
rotate_before_offset == AuxParameter("rotate_before_offset", 6, "bool")
\* the offsets and rotations, in the order return_to_coordinate_frame
\* reads and assigns them
transformation_fields == <<offset_x, offset_y, rotate_x, rotate_y, rotate_z>>

\* -parameter.linked(): PickupExpression.__neg__ of a new expression
neg_linked(surface, parameter) == PickupExpression(surface, parameter, 0 - 0, 0 - 1)

\* CommentParameter.get_value
comment_get_value(h, hd, scan) ==
    LET g == comment_get_comment_and_tag(h, hd, scan)
    IN  [err |-> g.err, ret |-> g.comment]

\* str(n) of an int n >= 0
digit_chars == <<"0", "1", "2", "3", "4", "5", "6", "7", "8", "9">>
RECURSIVE str_int(_)
str_int(n) ==
    IF n < 10 THEN <<digit_chars[n + 1]>> ELSE str_int(n \div 10) \o <<digit_chars[(n % 10) + 1]>>

UNDO == <<"U", "N", "D", "O", " ">>
UNDO_thickness == UNDO \o <<"t", "h", "i", "c", "k", "n", "e", "s", "s", " ">>

\* The assignments made to a surface just inserted are a sequence of
\* steps [f, kind]: kind "pickup" assigns -to_undo.<f>.linked(), kind
\* "not" assigns not to_undo.<f>.value, kind "False" assigns False.
Step(f, kind) == [f |-> f, kind |-> kind]
thickness_steps == <<Step(ThicknessParameter, "pickup")>>
transformation_steps ==
    [i \in 1..5 |-> Step(transformation_fields[i], "pickup")]
        \o <<Step(rotate_before_offset, "not")>>
simple_steps == <<Step(rotate_before_offset, "False"), Step(ThicknessParameter, "pickup")>>

\* inserted.<f>.value = ... for one step
assign_step(h, inserted, to_undo, step, scan) ==
    LET inverted(g) ==
            IF g.err # "none" THEN Res(h, g.err, g.calls, NoHandle, 0)
            ELSE param_set_value(h, inserted, step.f, Py("bool", ~g.ret.v), scan)
    IN  CASE step.kind = "pickup" ->
                 param_set_value(h, inserted, step.f, neg_linked(to_undo, step.f), scan)
          [] step.kind = "not" -> inverted(param_get_value(h, to_undo, step.f, scan))
          [] OTHER -> param_set_value(h, inserted, step.f, Py("bool", FALSE), scan)

\* the steps from the i-th on, in order, up to the first that raises
RECURSIVE assign_steps(_, _, _, _, _, _)
assign_steps(h, inserted, to_undo, steps, i, scan) ==
    LET rest(r) ==
            IF r.err # "none" THEN r
            ELSE assign_steps(r.h, inserted, to_undo, steps, i + 1, scan)
    IN  IF i > Len(steps) THEN Res(h, "none", <<>>, inserted, 0)
        ELSE rest(assign_step(h, inserted, to_undo, steps[i], scan))

\* inserted.comment.value = prefix + (to_undo.comment.value or
\* str(to_undo.get_surf_num()))
undo_comment(h, inserted, to_undo, prefix, scan) ==
    LET n == get_surf_num(h, to_undo, scan)
        named(g) ==
            IF g.err # "none" THEN Res(h, g.err, <<>>, NoHandle, 0)
            ELSE IF g.ret # EMPTY /\ g.ret # NONE
                 THEN comment_set_value(h, inserted, prefix \o g.ret, scan)
            ELSE IF n < 0 THEN Res(h, "SurfaceLabelError", <<>>, NoHandle, n)
            ELSE comment_set_value(h, inserted, prefix \o str_int(n), scan)
    IN  named(comment_get_value(h, to_undo, scan))

\* The state of a call of return_to_coordinate_frame: the host model, the
\* exception raised so far, the handles bound to the local inserted in
\* order, and the number of labels drawn.
Walk(h, err, inserted, drawn) == [h |-> h, err |-> err, inserted |-> inserted, drawn |-> drawn]

\* inserted = factory() with the default factory, the steps and the comment
emit(w, insert_point, to_undo, steps, prefix, draws, u, scan) ==
    LET k == Len(w.inserted)
        failed(r) == Walk(r.h, r.err, w.inserted, w.drawn + 1)
        commented(r, hd) ==
            IF r.err # "none" THEN Walk(r.h, r.err, Append(w.inserted, hd), w.drawn + 1)
            ELSE Walk(r.h, "none", Append(w.inserted, hd), w.drawn + 1)
        assigned(r, hd) ==
            IF r.err # "none" THEN Walk(r.h, r.err, Append(w.inserted, hd), w.drawn + 1)
            ELSE commented(undo_comment(r.h, hd, to_undo, prefix, scan), hd)
        made(r) ==
            IF r.err # "none" THEN failed(r)
            ELSE assigned(assign_steps(r.h, r.ret, to_undo, steps, 1, scan), r.ret)
    IN  made(insert_new(w.h, insert_point + 1 + k, "COORDBRK", NONE, draws[w.drawn + 1],
                        u + k, scan))

\* any(transformations)
any_transformations(h, to_undo, scan) ==
    \E i \in 1..5 : py_number(param_get_value(h, to_undo, transformation_fields[i], scan).ret) # 0

\* the body of the loop for the surface numbered sn1
undo_surface(w, sn1, insert_point, include_null_transforms, draws, u, scan) ==
    LET thick(h, to_undo) ==
            py_number(param_get_value(h, to_undo, ThicknessParameter, scan).ret) # 0
        transformed(w2, to_undo) ==
            IF w2.err # "none" THEN w2
            ELSE IF get_surf_num(w2.h, to_undo, scan) < 0
                 THEN [w2 EXCEPT !.err = "SurfaceLabelError"]
            ELSE IF any_transformations(w2.h, to_undo, scan) \/ include_null_transforms
                 THEN emit(w2, insert_point, to_undo, transformation_steps, UNDO, draws, u, scan)
            ELSE w2
        undone(w1, to_undo) ==
            IF to_undo.cls = "COORDBRK"
            THEN transformed(IF thick(w1.h, to_undo) \/ include_null_transforms
                             THEN emit(w1, insert_point, to_undo, thickness_steps,
                                       UNDO_thickness, draws, u, scan)
                             ELSE w1, to_undo)
            ELSE IF thick(w1.h, to_undo) \/ include_null_transforms
                 THEN emit(w1, insert_point, to_undo, simple_steps, UNDO, draws, u, scan)
            ELSE w1
        fetched(got) ==
            undone(Walk(got.h, "none", w.inserted,
                        w.drawn + (IF HostGetLabel(w.h, sn1) = 0 THEN 1 ELSE 0)), got.ret)
    IN  fetched(getitem(w.h, sn1, draws[w.drawn + 1]))

\* for sn1 in surfaces_to_undo, from sn1 down to first
RECURSIVE undo_from(_, _, _, _, _, _, _, _)
undo_from(w, sn1, first, insert_point, include_null_transforms, draws, u, scan) ==
    LET next(w1) ==
            IF w1.err # "none" THEN w1
            ELSE undo_from(w1, sn1 - 1, first, insert_point, include_null_transforms,
                           draws, u, scan)
    IN  IF sn1 < first THEN w
        ELSE next(undo_surface(w, sn1, insert_point, include_null_transforms, draws, u, scan))

\* return_to_coordinate_frame(seq, first_return_surf, last_return_surf,
\* None, include, None), include being include_null_transforms: the local
\* inserted is unbound when the loop has assigned nothing to it
return_to_coordinate_frame(h, first_return_surf, last_return_surf, include, draws, u, scan) ==
    LET returned(w) ==
            IF w.err # "none" THEN [w |-> w, err |-> w.err, num |-> 0 - 1]
            ELSE IF w.inserted = <<>> THEN [w |-> w, err |-> "UnboundLocalError", num |-> 0 - 1]
            ELSE IF get_surf_num(w.h, w.inserted[Len(w.inserted)], scan) < 0
                 THEN [w |-> w, err |-> "SurfaceLabelError", num |-> 0 - 1]
            ELSE [w |-> w, err |-> "none",
                  num |-> get_surf_num(w.h, w.inserted[Len(w.inserted)], scan)]
    IN  returned(undo_from(Walk(h, "none", <<>>, 0), last_return_surf, first_return_surf,
                           last_return_surf, include, draws, u, scan))

\* The host's coordinate frames.  A frame is the product of the motions
\* of the surfaces before it, kept as a reduced word: a motion is a kind
\* (decentre "D", rotation "Rx", "Ry", "Rz", advance along z "T") with its
\* amount, motions of one kind add, and a motion of amount zero is none.
Motion(kind, amount) == [kind |-> kind, amount |-> amount]
is_null(m) == IF m.kind = "D" THEN m.amount = <<0, 0>> ELSE m.amount = 0
add_amount(kind, a, b) == IF kind = "D" THEN <<a[1] + b[1], a[2] + b[2]>> ELSE a + b
push(word, m) ==
    LET n == Len(word)
        merged(t) == IF is_null(t) THEN SubSeq(word, 1, n - 1) ELSE [word EXCEPT ![n] = t]
    IN  IF is_null(m) THEN word
        ELSE IF n > 0 /\ word[n].kind = m.kind
             THEN merged(Motion(m.kind, add_amount(m.kind, word[n].amount, m.amount)))
        ELSE Append(word, m)
RECURSIVE push_all(_, _, _)
push_all(word, ms, i) == IF i > Len(ms) THEN word ELSE push_all(push(word, ms[i]), ms, i + 1)

\* the motions of one surface record: a coordinate break decentres and
\* then rotates about x, y, z, or, with its order flag set, rotates about
\* z, y, x and then decentres; every surface then advances by its thickness
motions(s) ==
    LET aux(c) == Lookup(s.val, <<"aux", c>>, 0)
        d == Motion("D", <<aux(1), aux(2)>>)
        t == Motion("T", Lookup(s.val, <<"data", 3>>, 0))
    IN  IF s.type # "COORDBRK" THEN <<t>>
        ELSE IF aux(6) = 0
             THEN <<d, Motion("Rx", aux(3)), Motion("Ry", aux(4)), Motion("Rz", aux(5)), t>>
        ELSE <<Motion("Rz", aux(5)), Motion("Ry", aux(4)), Motion("Rx", aux(3)), d, t>>

\* the frame in which the surface at position p is placed
RECURSIVE frame_at(_, _)
frame_at(h, p) == IF p <= 0 THEN <<>> ELSE push_all(frame_at(h, p - 1), motions(At(h, p - 1)), 1)

\* ------------------------------------------------------- system settings
\* A float is its sign and the decimal digits of its mantissa; only the
\* number of digits a conversion keeps matters here.
Float(neg, digits) == [t |-> "float", neg |-> neg, digits |-> digits]
\* digits d with one added in the last place
RECURSIVE carry(_)
carry(d) ==
    IF d = <<>> THEN <<1>>
    ELSE IF d[Len(d)] < 9 THEN [d EXCEPT ![Len(d)] = @ + 1]
    ELSE carry(SubSeq(d, 1, Len(d) - 1)) \o <<0>>
RECURSIVE strip_zeros(_)
strip_zeros(d) ==
    IF Len(d) > 1 /\ d[Len(d)] = 0 THEN strip_zeros(SubSeq(d, 1, Len(d) - 1)) ELSE d
\* str(float) keeps 12 significant digits ('%.12g')
str_digits == 12
round_digits(d) ==
    IF Len(d) <= str_digits THEN strip_zeros(d)
    ELSE IF d[str_digits + 1] < 5 THEN strip_zeros(SubSeq(d, 1, str_digits))
    ELSE strip_zeros(SubSeq(carry(SubSeq(d, 1, str_digits)), 1, str_digits))
\* str(value) of an int or a float
py_str(value) ==
    IF value.t = "float" THEN [value EXCEPT !.t = "text", !.digits = round_digits(@)]
    ELSE [t |-> "text", v |-> value.v]
\* self._type(val) of SystemParameter.__get__, after int(val) for bool
system_typed(type, text) ==
    IF type = "float" THEN [text EXCEPT !.t = "float"]
    ELSE IF type = "bool" THEN Py("bool", text.v # 0)
    ELSE Py("int", text.v)

\* SystemParameter(get_id, _type)
SystemParameter(name, get_id, type) == [name |-> name, get_id |-> get_id, type |-> type]
SystemParameters ==
    {SystemParameter("numsurfs", 0, "int"), SystemParameter("unitcode", 1, "int"),
     SystemParameter("stopsurf", 2, "int"), SystemParameter("nonaxialflag", 3, "bool"),
     SystemParameter("rayaimingtype", 4, "int"), SystemParameter("adjustindex", 5, "bool"),
     SystemParameter("temperature", 6, "float"), SystemParameter("pressure", 7, "float"),
     SystemParameter("globalrefsurf", 8, "int")}
setget_map == <<1, 2, 4, 5, 6, 7, 8>>

\* the settings of a new lens
NewLensSystem ==
    <<[t |-> "text", v |-> 2], [t |-> "text", v |-> 0], [t |-> "text", v |-> 1],
      [t |-> "text", v |-> 0], [t |-> "text", v |-> 0], [t |-> "text", v |-> 0],
      py_str(Float(FALSE, <<2>>)), py_str(Float(FALSE, <<1>>)), [t |-> "text", v |-> 1]>>
\* GetSystem: the response split at the commas; the first item is the
\* number of surfaces
HostGetSystemRaw(h, sys) == [sys EXCEPT ![1] = [t |-> "text", v |-> HostGetSystem(h)]]
\* SetSystem with the seven settable items, in the order of setget_map
HostSetSystemRaw(sys, args) ==
    [i \in 1..Len(sys) |->
        IF \E k \in 1..Len(setget_map) : setget_map[k] + 1 = i
        THEN args[CHOOSE k \in 1..Len(setget_map) : setget_map[k] + 1 = i]
        ELSE sys[i]]

\* SystemParameter.__get__
system_get(h, sys, p) == system_typed(p.type, HostGetSystemRaw(h, sys)[p.get_id + 1])

\* SystemParameter.__set__
system_set(h, sys, p, value) ==
    IF ~\E k \in 1..Len(setget_map) : setget_map[k] = p.get_id
    THEN [sys |-> sys, err |-> "NotImplementedError", calls |-> <<>>]
    ELSE LET set_id == CHOOSE k \in 1..Len(setget_map) : setget_map[k] = p.get_id
             orig == HostGetSystemRaw(h, sys)
             new == [k \in 1..Len(setget_map) |->
                        IF k = set_id
                        THEN py_str(IF p.type = "bool" THEN py_int(value) ELSE value)
                        ELSE orig[setget_map[k] + 1]]
         IN  [sys |-> HostSetSystemRaw(sys, new), err |-> "none",
              calls |-> <<"GetSystem", "SetSystem">>]

\* a NamedElements instance without attributes
NoAttrs == [x \in {} |-> NoHandle]

\* object.__setattr__(self, tag, surf)
object_setattr(attrs, tag, surf) ==
    [x \in DOMAIN attrs \cup {tag} |-> IF x = tag THEN surf ELSE attrs[x]]

\* NamedElements.__setattr__: the attribute is set, then the tag is written
named_setattr(h, attrs, tag, surf, scan) ==
    [r |-> comment_set_tag(h, surf, tag, scan), els |-> object_setattr(attrs, tag, surf)]

\* NamedElements.__init__ from item i on: n is the length taken when the
\* loop starts, id the label drawn for an item found without one
RECURSIVE named_from(_, _, _, _, _, _)
named_from(h, attrs, i, n, id, scan) ==
    IF i >= n THEN [h |-> h, els |-> attrs, err |-> "none"]
    ELSE LET tagged(item, g) ==
                 IF g.err # "none" THEN [h |-> item.h, els |-> attrs, err |-> g.err]
                 ELSE IF g.tag = NONE
                      THEN named_from(item.h, attrs, i + 1, n, id, scan)
                 ELSE LET set(w) ==
                              IF w.r.err # "none"
                              THEN [h |-> item.h, els |-> w.els, err |-> w.r.err]
                              ELSE named_from(w.r.h, w.els, i + 1, n, id, scan)
                      IN  set(named_setattr(item.h, attrs, g.tag, item.ret, scan))
             each(item) == tagged(item, comment_get_comment_and_tag(item.h, item.ret, scan))
         IN  each(getitem(h, i, id))

\* NamedElements(seq)
named_init(h, id, scan) == named_from(h, NoAttrs, 0, seq_len(h), id, scan)

\* ------------------------------------------------------------------ state
VARIABLES
    host,       \* the host lens model: sequence of surface records
    scan,       \* how the host resolves FindLabel among equal labels
    phase,      \* "new" before SurfaceSequence(...) has run, then "ready"
    held,       \* a Surface handle the caller keeps (NoHandle if none)
    nextUid,    \* ghost: next surface record name
    ops,        \* calls made so far that may change the model
    pylist,     \* the Python list run side by side with the sequence
    els,        \* the attributes of the NamedElements instance the caller keeps
    system,     \* the host's system settings, as the texts GetSystem returns
    last        \* the last call: what it was, on what, and how it ended

vars == <<host, scan, phase, held, nextUid, ops, pylist, els, system, last>>

\* labels found in a model this layer did not write: unassigned or equal
InitLabels == {0, 1}
Literals == {<<"b">>}
\* a comment one character over the limit, and a short one with a tag
LongComment == [i \in 1..(max_len + 1) |-> "x"]
TaggedWrites == {<<LongComment, NONE>>, <<(<<"b">>), (<<"t">>)>>}

\* indices a caller may pass: in range and out of range on both sides
Indices == (0 - 3)..3

InitSurf(u, l) == [NewSurf(u) EXCEPT !.label = l]

\* host models as they may be before this layer touches them: any labels,
\* zero and duplicated ones included
HostsUpTo(n) ==
    UNION {{[p \in 1..k |-> InitSurf(p, f[p])] : f \in [1..k -> InitLabels]}
             : k \in 2..n}

\* what is remembered of a call: the operation, the index passed, the
\* exception it raised ("none" if it returned), the position it worked on
\* and the requests it sent to the host
Call(op, idx, r) == [op |-> op, idx |-> idx, err |-> r.err, num |-> r.num, calls |-> r.calls]

NoCall == [op |-> "none", idx |-> 0, err |-> "none", num |-> 0, calls |-> <<>>]

\* ---------------------------------------------------------- construction
InitNew ==
    /\ host \in HostsUpTo(MaxInit)
    /\ scan \in ScanOrders
    /\ phase = "new"
    /\ held = NoHandle
    /\ nextUid = Len(host) + 1
    /\ ops = 0
    /\ pylist = <<>>
    /\ els = NoAttrs
    /\ system = NewLensSystem
    /\ last = NoCall

\* SurfaceSequence(conn, empty)
Construct(empty) ==
    /\ phase = "new"
    /\ \E h2 \in init_outcomes(host, empty) :
         /\ host' = h2
         /\ last' = [op |-> IF empty THEN "init_empty" ELSE "init", idx |-> 0,
                     err |-> "none", num |-> Len(host), calls |-> <<>>]
    /\ phase' = "ready"
    /\ UNCHANGED <<scan, held, nextUid, ops, pylist, els, system>>

NextNew == \E empty \in BOOLEAN : Construct(empty)

SpecNew == InitNew /\ [][NextNew]_vars

\* ------------------------------------------------------------ operations
\* the sequence has been constructed over some host model
Init ==
    /\ host \in UNION {init_outcomes(h0, e) : h0 \in HostsUpTo(MaxStart), e \in BOOLEAN}
    /\ scan \in ScanOrders
    /\ phase = "ready"
    /\ held = NoHandle
    /\ nextUid = MaxStart + 1
    /\ ops = 0
    /\ pylist = <<>>
    /\ els = NoAttrs
    /\ system = NewLensSystem
    /\ last = NoCall

\* seq[idx]
GetItem(idx, id) ==
    /\ phase = "ready"
    /\ ops < MaxOps
    /\ translate_id(host, idx) \in Positions(host)
    /\ LET r == getitem(host, idx, id)
       IN  /\ host' = r.h
           /\ held' = r.ret
           /\ last' = Call("getitem", idx, r)
    /\ ops' = ops + 1
    /\ UNCHANGED <<scan, phase, nextUid, pylist, els, system>>

\* del seq[idx]
DelItem(idx) ==
    /\ phase = "ready"
    /\ ops < MaxOps
    /\ LET r == delitem(host, idx)
       IN  /\ host' = r.h
           /\ last' = Call("delitem", idx, r)
    /\ ops' = ops + 1
    /\ UNCHANGED <<scan, phase, held, nextUid, pylist, els, system>>

\* seq.insert_new(idx, cls, comment)
InsertNew(idx, cls, comment, id) ==
    /\ phase = "ready"
    /\ ops < MaxOps
    /\ LET r == insert_new(host, idx, cls, comment, id, nextUid, scan)
       IN  /\ host' = r.h
           /\ nextUid' = IF Len(r.h) > Len(host) THEN nextUid + 1 ELSE nextUid
           /\ last' = Call("insert_new", idx, r)
    /\ ops' = ops + 1
    /\ UNCHANGED <<scan, phase, held, pylist, els, system>>

\* seq.append_new(cls, comment)
AppendNew(cls, comment, id) ==
    /\ phase = "ready"
    /\ ops < MaxOps
    /\ LET r == append_new(host, cls, comment, id, nextUid, scan)
       IN  /\ host' = r.h
           /\ nextUid' = IF Len(r.h) > Len(host) THEN nextUid + 1 ELSE nextUid
           /\ last' = Call("append_new", 0 - 1, r)
    /\ ops' = ops + 1
    /\ UNCHANGED <<scan, phase, held, pylist, els, system>>

\* held.get_surf_num()
GetSurfNum ==
    /\ phase = "ready"
    /\ held # NoHandle
    /\ LET n == get_surf_num(host, held, scan)
       IN  last' = [op |-> "get_surf_num", idx |-> 0,
                    err |-> IF n < 0 THEN "SurfaceLabelError" ELSE "none",
                    num |-> n, calls |-> <<"FindLabel">>]
    /\ UNCHANGED <<ops, host, scan, phase, held, nextUid, pylist, els, system>>

\* held.comment.value
ReadComment ==
    /\ phase = "ready"
    /\ held # NoHandle
    /\ LET g == comment_get_comment_and_tag(host, held, scan)
       IN  last' = [op |-> "read", idx |-> 0, err |-> g.err,
                    num |-> get_surf_num(host, held, scan), calls |-> g.calls]
    /\ UNCHANGED <<ops, host, scan, phase, held, nextUid, pylist, els, system>>

\* held.comment.value = c
WriteComment(c) ==
    /\ phase = "ready"
    /\ ops < MaxOps
    /\ held # NoHandle
    /\ LET r == comment_set_value(host, held, c, scan)
       IN  /\ host' = r.h
           /\ last' = Call("write", 0, r)
    /\ ops' = ops + 1
    /\ UNCHANGED <<scan, phase, held, nextUid, pylist, els, system>>

\* held.comment.set_comment_and_tag(c, t)
SetCommentAndTag(c, t) ==
    /\ phase = "ready"
    /\ ops < MaxOps
    /\ held # NoHandle
    /\ LET r == comment_set_comment_and_tag(host, held, c, t, scan)
       IN  /\ host' = r.h
           /\ last' = Call("set_comment_and_tag", 0, r)
    /\ ops' = ops + 1
    /\ UNCHANGED <<scan, phase, held, nextUid, pylist, els, system>>

\* held.remove()
Remove ==
    /\ phase = "ready"
    /\ ops < MaxOps
    /\ held # NoHandle
    /\ LET r == remove(host, held, scan)
       IN  /\ host' = r.h
           /\ last' = Call("remove", 0, r)
    /\ ops' = ops + 1
    /\ UNCHANGED <<scan, phase, held, nextUid, pylist, els, system>>

Next ==
    \/ \E idx \in Indices, id \in RandLabels : GetItem(idx, id)
    \/ \E idx \in Indices : DelItem(idx)
    \/ \E idx \in Indices, cls \in Variants, id \in RandLabels :
          InsertNew(idx, cls, <<"a">>, id)
    \/ \E cls \in Variants, id \in RandLabels : AppendNew(cls, NONE, id)
    \/ GetSurfNum
    \/ ReadComment
    \/ \E c \in Literals : WriteComment(c)
    \/ \E ct \in TaggedWrites : SetCommentAndTag(ct[1], ct[2])
    \/ Remove

Spec == Init /\ [][Next]_vars

\* ------------------------------------------- side by side with a list
OBJ == <<"O", "B", "J">>
IMG == <<"I", "M", "G">>
ListComments == {<<"a">>, <<"b">>}

\* list.insert(i, x)
PyInsert(l, i, x) ==
    LET a == IF i < 0 THEN i + Len(l) ELSE i
        b == IF a < 0 THEN 0 ELSE IF a > Len(l) THEN Len(l) ELSE a
    IN  SubSeq(l, 1, b) \o <<x>> \o SubSeq(l, b + 1, Len(l))

\* del l[i], i in range
PyDel(l, i) ==
    LET a == IF i < 0 THEN i + Len(l) ELSE i
    IN  SubSeq(l, 1, a) \o SubSeq(l, a + 2, Len(l))

\* the index range the comparison is run over: 1..len-1 and -(len-1)..-1
ListIndices(h) == (1..(Len(h) - 1)) \cup {0 - k : k \in 1..(Len(h) - 1)}

\* [s.comment.value for s in seq]; id is what the allocator returns should
\* a position turn out to carry no label
RECURSIVE comments_from(_, _, _, _)
comments_from(h, p, id, sc) ==
    IF p >= seq_len(h) THEN <<>>
    ELSE LET r == getitem(h, p, id)
             g == comment_get_comment_and_tag(r.h, r.ret, sc)
         IN  <<g.comment>> \o comments_from(r.h, p + 1, id, sc)

\* a model of three surfaces, SurfaceSequence(z, empty=True),
\* model[0].comment.value = "OBJ", model[-1].comment.value = "IMG"
InitList ==
    /\ scan \in ScanOrders
    /\ \E h0 \in {h \in HostsUpTo(3) : Len(h) = 3} :
       \E h1 \in init_outcomes(h0, TRUE) :
       \E id1 \in RandLabels, id2 \in RandLabels :
         LET g1 == getitem(h1, 0, id1)
             w1 == comment_set_value(g1.h, g1.ret, OBJ, scan)
             g2 == getitem(w1.h, 0 - 1, id2)
             w2 == comment_set_value(g2.h, g2.ret, IMG, scan)
         IN  /\ host = w2.h
             /\ Len(host) = 2
             /\ At(host, 0).comment = OBJ
             /\ At(host, 1).comment = IMG
             /\ \A id \in RandLabels : comments_from(host, 0, id, scan) = <<OBJ, IMG>>
    /\ phase = "ready"
    /\ held = NoHandle
    /\ nextUid = 4
    /\ ops = 0
    /\ pylist = <<OBJ, IMG>>
    /\ els = NoAttrs
    /\ system = NewLensSystem
    /\ last = NoCall

ListInsert(idx, x, id) ==
    /\ ops < MaxListOps
    /\ idx \in ListIndices(host)
    /\ \E cls \in Variants :
         LET r == insert_new(host, idx, cls, x, id, nextUid, scan)
         IN  /\ host' = r.h
             /\ nextUid' = IF Len(r.h) > Len(host) THEN nextUid + 1 ELSE nextUid
             /\ last' = Call("insert_new", idx, r)
    /\ pylist' = PyInsert(pylist, idx, x)
    /\ ops' = ops + 1
    /\ UNCHANGED <<scan, phase, held, els, system>>

ListAppend(x, id) ==
    /\ ops < MaxListOps
    /\ \E cls \in Variants :
         LET r == append_new(host, cls, x, id, nextUid, scan)
         IN  /\ host' = r.h
             /\ nextUid' = IF Len(r.h) > Len(host) THEN nextUid + 1 ELSE nextUid
             /\ last' = Call("append_new", 0 - 1, r)
    /\ pylist' = PyInsert(pylist, 0 - 1, x)
    /\ ops' = ops + 1
    /\ UNCHANGED <<scan, phase, held, els, system>>

ListDelete(idx) ==
    /\ ops < MaxListOps
    /\ idx \in ListIndices(host)
    /\ Len(pylist) = Len(host)
    /\ LET r == delitem(host, idx)
       IN  /\ host' = r.h
           /\ last' = Call("delitem", idx, r)
    /\ pylist' = PyDel(pylist, idx)
    /\ ops' = ops + 1
    /\ UNCHANGED <<scan, phase, held, nextUid, els, system>>

NextList ==
    \/ \E idx \in Indices, x \in ListComments, id \in RandLabels : ListInsert(idx, x, id)
    \/ \E x \in ListComments, id \in RandLabels : ListAppend(x, id)
    \/ \E idx \in Indices : ListDelete(idx)

SpecList == InitList /\ [][NextList]_vars

\* ------------------------------------------------- comments and tags
Fill(n) == [i \in 1..n |-> "x"]
\* comments a caller may write: empty, blank, with white space in front or
\* behind, with '#', one that is itself a #...# group, and ones around the
\* length limit
Comments ==
    {EMPTY, <<"a">>, <<" ">>, <<"a", " ">>, <<" ", "a">>, <<"a", "#">>,
     <<"#", "a", "#">>, Fill(max_len - 4), Fill(max_len - 3),
     Fill(max_len), Fill(max_len + 1)}
Tags == {NONE, EMPTY, <<"t">>, <<"#">>, <<"t", "#", "u">>}
\* the surface whose comment is written
CommentPositions == {1}

\* a call on the comment, with the comment and the tag passed (NONE for
\* the one a setter does not take)
CommentCall(op, p, r, c, t) ==
    [op |-> op, idx |-> p, err |-> r.err, num |-> r.num, calls |-> r.calls,
     comment |-> c, tag |-> t]

\* a sequence of three labelled surfaces without comments; the labels are
\* distinct, so the scan order decides nothing
InitComment ==
    /\ host = [p \in 1..3 |-> InitSurf(p, p)]
    /\ scan = "lo"
    /\ phase = "ready"
    /\ held = NoHandle
    /\ nextUid = 4
    /\ ops = 0
    /\ pylist = <<>>
    /\ els = NoAttrs
    /\ system = NewLensSystem
    /\ last = CommentCall("none", 0, NoCall, NONE, NONE)

\* seq[p].comment.set_comment_and_tag(c, t)
CommentSetBoth(p, c, t) ==
    /\ ops < MaxCommentOps
    /\ held' = getitem(host, p, 1).ret
    /\ LET r == comment_set_comment_and_tag(host, held', c, t, scan)
       IN  /\ host' = r.h
           /\ last' = CommentCall("set_comment_and_tag", p, r, c, t)
    /\ ops' = ops + 1
    /\ UNCHANGED <<scan, phase, nextUid, pylist, els, system>>

\* seq[p].comment.value = c
CommentSetValue(p, c) ==
    /\ ops < MaxCommentOps
    /\ held' = getitem(host, p, 1).ret
    /\ LET r == comment_set_value(host, held', c, scan)
       IN  /\ host' = r.h
           /\ last' = CommentCall("set_value", p, r, c, NONE)
    /\ ops' = ops + 1
    /\ UNCHANGED <<scan, phase, nextUid, pylist, els, system>>

\* seq[p].comment.tag = t
CommentSetTag(p, t) ==
    /\ ops < MaxCommentOps
    /\ held' = getitem(host, p, 1).ret
    /\ LET r == comment_set_tag(host, held', t, scan)
       IN  /\ host' = r.h
           /\ last' = CommentCall("set_tag", p, r, NONE, t)
    /\ ops' = ops + 1
    /\ UNCHANGED <<scan, phase, nextUid, pylist, els, system>>

NextComment ==
    \/ \E p \in CommentPositions, c \in Comments, t \in Tags : CommentSetBoth(p, c, t)
    \/ \E p \in CommentPositions, c \in Comments : CommentSetValue(p, c)
    \/ \E p \in CommentPositions, t \in Tags : CommentSetTag(p, t)

SpecComment == InitComment /\ [][NextComment]_vars

\* ------------------------------------------------- parameters and solves
MaxParamOps == 2  \* parameter calls, per run

\* values assigned to a field of the given type
LiteralsOf(type) ==
    CASE type = "str" -> {Py("str", "MIRROR"), Py("str", "BK7")}
      [] type = "bool" -> {Py("bool", TRUE), Py("bool", FALSE)}
      [] type = "int" -> {Py("int", 5), Py("int", 2)}
      [] OTHER -> {Py("float", 2), Py("int", 30)}
\* the surface whose fields are written, and the surface pickups refer to
ParamPositions == {1}
SourcePosition == 2
\* the handle insert_new returned for the surface now at position p
ParamHandle(h, p) == [id |-> At(h, p).label, cls |-> "TOROIDAL", uid |-> At(h, p).uid]
\* linked(), 3 * linked() and 1 + linked() of the same field, of the
\* thickness or of the first parameter of the source surface
PickupsOf(h, f) ==
    {PickupExpression(ParamHandle(h, SourcePosition), src, m[1], m[2]) :
        src \in {f, ThicknessParameter, radius_of_rotation},
        m \in {<<0, 1>>, <<0, 3>>, <<1, 1>>}}

ParamCall(op, p, f, value, r) ==
    [op |-> op, idx |-> p, err |-> r.err, num |-> r.num, calls |-> r.calls,
     field |-> f, value |-> value, ret |-> r.ret]

\* the values the source surface is given before anything refers to it
SetUpValues ==
    <<(<<glass, Py("str", "MIRROR")>>), (<<CurvatureParameter, Py("int", 1)>>),
      (<<ignored, Py("bool", TRUE)>>), (<<SemiDiameterParameter, Py("int", 2)>>),
      (<<ThicknessParameter, Py("int", 30)>>), (<<radius_of_rotation, Py("int", 7)>>),
      (<<num_poly_terms, Py("int", 5)>>)>>
RECURSIVE set_up(_, _, _)
set_up(h, hd, i) ==
    IF i > Len(SetUpValues) THEN h
    ELSE set_up(param_set_value(h, hd, SetUpValues[i][1], SetUpValues[i][2], "lo").h, hd, i + 1)
\* object, two Toroidal surfaces, image: distinct labels, the source
\* surface with its values assigned, the other one with nothing set
BareHost ==
    [p \in 1..4 |->
        [InitSurf(p, p) EXCEPT !.type = IF p \in {2, 3} THEN "TOROIDAL" ELSE "STANDARD"]]
ParamHost == set_up(BareHost, ParamHandle(BareHost, SourcePosition), 1)

InitParam ==
    /\ host = ParamHost
    /\ scan = "lo"
    /\ phase = "ready"
    /\ held = NoHandle
    /\ nextUid = 5
    /\ ops = 0
    /\ pylist = <<>>
    /\ els = NoAttrs
    /\ system = NewLensSystem
    /\ last = ParamCall("none", 0, ignored, NONE, Res(host, "none", <<>>, NONE, 0))

ParamSetValue(p, f, value) ==
    /\ ops < MaxParamOps
    /\ held' = ParamHandle(host, p)
    /\ LET r == param_set_value(host, held', f, value, scan)
       IN  /\ host' = r.h
           /\ last' = ParamCall("set_value", p, f, value, [r EXCEPT !.ret = NONE])
    /\ ops' = ops + 1
    /\ UNCHANGED <<scan, phase, nextUid, pylist, els, system>>

\* seq[p].<f>.vary()
ParamVary(p, f) ==
    /\ ops < MaxParamOps
    /\ held' = ParamHandle(host, p)
    /\ LET r == param_vary(host, held', f, scan)
       IN  /\ host' = r.h
           /\ last' = ParamCall("vary", p, f, NONE, [r EXCEPT !.ret = NONE])
    /\ ops' = ops + 1
    /\ UNCHANGED <<scan, phase, nextUid, pylist, els, system>>

\* seq[p].fix_variables()
ParamFixVariables(p) ==
    /\ ops < MaxParamOps
    /\ held' = ParamHandle(host, p)
    /\ LET r == fix_variables(host, held', scan)
       IN  /\ host' = r.h
           /\ last' = ParamCall("fix_variables", p, ignored, NONE, r)
    /\ ops' = ops + 1
    /\ UNCHANGED <<scan, phase, nextUid, pylist, els, system>>

\* conn.GetUpdate()
ParamUpdate ==
    /\ ops < MaxParamOps
    /\ host' = HostGetUpdate(host)
    /\ last' = ParamCall("GetUpdate", 0, ignored, NONE, Res(host, "none", <<"GetUpdate">>, NONE, 0))
    /\ ops' = ops + 1
    /\ UNCHANGED <<scan, phase, held, nextUid, pylist, els, system>>

NextParam ==
    \/ \E p \in ParamPositions, f \in Toroidal :
           \E value \in LiteralsOf(f.type) : ParamSetValue(p, f, value)
    \/ \E p \in ParamPositions, f \in Toroidal :
           \E value \in PickupsOf(host, f) : ParamSetValue(p, f, value)
    \/ \E p \in ParamPositions, f \in Toroidal : ParamVary(p, f)
    \/ \E p \in ParamPositions : ParamFixVariables(p)
    \/ ParamUpdate

SpecParam == InitParam /\ [][NextParam]_vars

\* ------------------------------------------------------ named elements
MaxNamedOps == 3  \* NamedElements calls, per run

\* attribute names a caller assigns
Names == {<<"m">>, <<"n">>}
\* comments of the two surfaces between object and image at the start
NamedComments == {EMPTY, <<"a">>, Fill(max_len - 3)}
NamedPositions == {1, 2}

NamedCall(op, p, e, t) ==
    [op |-> op, idx |-> p, err |-> e, num |-> 0, calls |-> <<>>, comment |-> NONE, tag |-> t]

\* a lens of four surfaces with distinct labels, no tags; els = NamedElements(seq)
InitNamed ==
    /\ \E c1 \in NamedComments, c2 \in NamedComments :
           host = [p \in 1..4 |->
                     [InitSurf(p, p) EXCEPT !.comment =
                          IF p = 2 THEN c1 ELSE IF p = 3 THEN c2 ELSE EMPTY]]
    /\ scan = "lo"
    /\ phase = "ready"
    /\ held = NoHandle
    /\ nextUid = 5
    /\ ops = 0
    /\ pylist = <<>>
    /\ els = NoAttrs
    /\ system = NewLensSystem
    /\ last = NamedCall("none", 0, "none", NONE)

\* els.<name> = seq[p]
NamedSetAttr(name, p) ==
    /\ ops < MaxNamedOps
    /\ held' = getitem(host, p, 1).ret
    /\ LET w == named_setattr(host, els, name, held', scan)
       IN  /\ host' = w.r.h
           /\ els' = w.els
           /\ last' = NamedCall("setattr", p, w.r.err, name)
    /\ ops' = ops + 1
    /\ UNCHANGED <<scan, phase, nextUid, pylist, system>>

\* els = NamedElements(seq)
NamedBuild(id) ==
    /\ ops < MaxNamedOps
    /\ LET b == named_init(host, id, scan)
       IN  /\ host' = b.h
           /\ els' = b.els
           /\ last' = NamedCall("NamedElements", 0, b.err, NONE)
    /\ ops' = ops + 1
    /\ UNCHANGED <<scan, phase, held, nextUid, pylist, system>>

NextNamed ==
    \/ \E name \in Names, p \in NamedPositions : NamedSetAttr(name, p)
    \/ \E id \in RandLabels : NamedBuild(id)

SpecNamed == InitNamed /\ [][NextNamed]_vars

\* ------------------------------------------------------ system settings
MaxSystemOps == 2  \* assignments to system settings, per run

\* values assigned to a setting of the given type
SystemValues(type) ==
    CASE type = "bool" -> {Py("bool", TRUE), Py("bool", FALSE)}
      [] type = "float" -> {Float(TRUE, <<4>>), Float(FALSE, <<1, 1>>),
                            Float(FALSE, <<2, 0, 1, 2, 3, 4, 5, 6, 7, 8, 9, 0, 1, 2, 3>>)}
      [] OTHER -> {Py("int", 1), Py("int", 2)}

SystemCall(op, p, value, r) ==
    [op |-> op, idx |-> 0, err |-> r.err, num |-> 0, calls |-> r.calls,
     param |-> p, value |-> value]

\* a new lens and system = SystemConfig(conn)
InitSystem ==
    /\ host = [p \in 1..3 |-> InitSurf(p, p)]
    /\ scan = "lo"
    /\ phase = "ready"
    /\ held = NoHandle
    /\ nextUid = 4
    /\ ops = 0
    /\ pylist = <<>>
    /\ els = NoAttrs
    /\ system = NewLensSystem
    /\ last = SystemCall("none", SystemParameter("numsurfs", 0, "int"), NONE,
                         [err |-> "none", calls |-> <<>>])

\* system.<p> = value
SystemSet(p, value) ==
    /\ ops < MaxSystemOps
    /\ LET r == system_set(host, system, p, value)
       IN  /\ system' = r.sys
           /\ last' = SystemCall("set", p, value, r)
    /\ ops' = ops + 1
    /\ UNCHANGED <<host, scan, phase, held, nextUid, pylist, els>>

NextSystem == \E p \in SystemParameters : \E value \in SystemValues(p.type) : SystemSet(p, value)

SpecSystem == InitSystem /\ [][NextSystem]_vars

\* --------------------------------------------------- pickup expressions
MaxExprOps == 3  \* arithmetic operations applied to linked(), per run

\* In this section a number is an exact fraction <<n, d>> with d > 0 in
\* lowest terms.
RECURSIVE gcd(_, _)
gcd(a, b) == IF b = 0 THEN a ELSE gcd(b, a % b)
Abs(a) == IF a < 0 THEN 0 - a ELSE a
Frac(n, d) ==
    LET g == gcd(Abs(n), Abs(d))
        sgn == IF d < 0 THEN 0 - 1 ELSE 1
    IN  <<(sgn * n) \div g, (sgn * d) \div g>>
Num(k) == <<k, 1>>
FAdd(a, b) == Frac(a[1] * b[2] + b[1] * a[2], a[2] * b[2])
FSub(a, b) == Frac(a[1] * b[2] - b[1] * a[2], a[2] * b[2])
FMul(a, b) == Frac(a[1] * b[1], a[2] * b[2])
FDiv(a, b) == Frac(a[1] * b[2], a[2] * b[1])
FNeg(a) == <<0 - a[1], a[2]>>

\* Parameter.linked(): PickupExpression(self.surface, self), offset 0, scale 1
linked(surface, parameter) == PickupExpression(surface, parameter, Num(0), Num(1))

\* the outcome of an operation: the operand as the operation leaves it,
\* and the expression returned
Outcome(self, ret) == [err |-> "none", self |-> self, ret |-> ret]
expr_add(self, other) == Outcome(self, [self EXCEPT !.offset = FAdd(@, other)])
expr_radd(self, other) == expr_add(self, other)
expr_sub(self, other) == Outcome(self, [self EXCEPT !.offset = FSub(@, other)])
expr_rsub(self, other) ==
    Outcome(self, [self EXCEPT !.offset = FSub(other, @), !.scale = FNeg(@)])
expr_mul(self, other) ==
    Outcome(self, [self EXCEPT !.offset = FMul(@, other), !.scale = FMul(@, other)])
expr_rmul(self, other) == expr_mul(self, other)
expr_div(self, other) ==
    IF other[1] = 0 THEN [err |-> "ZeroDivisionError", self |-> self, ret |-> self]
    ELSE Outcome(self, [self EXCEPT !.offset = FDiv(@, other), !.scale = FDiv(@, other)])
\* __truediv__ calls self.__div__(self, other): one argument too many
expr_truediv(self, other) == [err |-> "TypeError", self |-> self, ret |-> self]
expr_neg(self) == Outcome(self, [self EXCEPT !.offset = FNeg(@), !.scale = FNeg(@)])
expr_pos(self) == Outcome(self, self)

\* e + c, c + e, e - c, c - e, e * c, c * e, e / c without and with true
\* division in the calling module, -e, +e
ExprOps == {"add", "radd", "sub", "rsub", "mul", "rmul", "div", "truediv", "neg", "pos"}
ExprConsts == {Num(2), Num(0 - 3), Num(0)}
expr_apply(op, self, other) ==
    CASE op = "add" -> expr_add(self, other)
      [] op = "radd" -> expr_radd(self, other)
      [] op = "sub" -> expr_sub(self, other)
      [] op = "rsub" -> expr_rsub(self, other)
      [] op = "mul" -> expr_mul(self, other)
      [] op = "rmul" -> expr_rmul(self, other)
      [] op = "div" -> expr_div(self, other)
      [] op = "truediv" -> expr_truediv(self, other)
      [] op = "neg" -> expr_neg(self)
      [] OTHER -> expr_pos(self)

ExprCall(op, c, r) ==
    [op |-> op, idx |-> 0, err |-> r.err, num |-> 0, calls |-> <<>>, c |-> c,
     operand |-> r.self, expr |-> r.ret]

\* e = seq[1].thickness.linked()
InitExpr ==
    /\ host = BareHost
    /\ scan = "lo"
    /\ phase = "ready"
    /\ held = ParamHandle(BareHost, SourcePosition)
    /\ nextUid = 5
    /\ ops = 0
    /\ pylist = <<>>
    /\ els = NoAttrs
    /\ system = NewLensSystem
    /\ last = ExprCall("linked", Num(0),
                       Outcome(linked(held, ThicknessParameter), linked(held, ThicknessParameter)))

\* e = e <op> c, or e = <op> e; after an exception e is what it was
ExprApply(op, c) ==
    /\ ops < MaxExprOps
    /\ last' = ExprCall(op, c, expr_apply(op, last.expr, c))
    /\ ops' = ops + 1
    /\ UNCHANGED <<host, scan, phase, held, nextUid, pylist, els, system>>

NextExpr == \E op \in ExprOps, c \in ExprConsts : ExprApply(op, c)

SpecExpr == InitExpr /\ [][NextExpr]_vars

\* ----------------------------------------------------- host result codes
MaxStatusOps == 3  \* requests that answer with a result code, per run

\* result codes the host answers with
StatusCodes == {0, 1, -1, -2, -999}
\* lenses a file can hold
StatusFiles == {BareHost, ParamHost}

Returned(value) == [err |-> "none", value |-> value]
Raised(err) == [err |-> err, value |-> NONE]

\* @returns_error_status: the wrapper raises on a true result and returns
\* nothing otherwise
returns_error_status(r) ==
    IF r.err # "none" THEN r
    ELSE IF r.value # 0 THEN Raised("ZemaxServerError")
    ELSE Returned(NONE)

\* Connection.GetUpdate, before the decorator
GetUpdate_body(error, untraceable_allowed) ==
    IF ~untraceable_allowed /\ error # 0 THEN Raised("Untraceable") ELSE Returned(error)
GetUpdate(error, untraceable_allowed) ==
    returns_error_status(GetUpdate_body(error, untraceable_allowed))

\* Connection.GetRefresh
GetRefresh_body(error, untraceable_allowed) ==
    IF ~untraceable_allowed /\ error # 0 THEN Raised("Untraceable") ELSE Returned(error)
GetRefresh(error, untraceable_allowed) ==
    returns_error_status(GetRefresh_body(error, untraceable_allowed))

\* Connection.LoadFile
LoadFile_body(error, untraceable_allowed) ==
    IF error = -999 THEN Raised("IOError")
    ELSE IF ~untraceable_allowed /\ error = -1 THEN Raised("Untraceable")
    ELSE Returned(error)
LoadFile(error, untraceable_allowed) ==
    returns_error_status(LoadFile_body(error, untraceable_allowed))

\* Connection.SaveFile
SaveFile_body(error, untraceable_allowed) ==
    IF error = -999 THEN Raised("IOError")
    ELSE IF ~untraceable_allowed /\ ~(error = 0) THEN Raised("Untraceable")
    ELSE Returned(error)
SaveFile(error, untraceable_allowed) ==
    returns_error_status(SaveFile_body(error, untraceable_allowed))

StatusCall(op, error, untraceable_allowed, r) ==
    [op |-> op, idx |-> 0, err |-> r.err, num |-> 0, calls |-> <<>>,
     code |-> error, allowed |-> untraceable_allowed, value |-> r.value]

InitStatus ==
    /\ host = ParamHost
    /\ scan = "lo"
    /\ phase = "ready"
    /\ held = NoHandle
    /\ nextUid = 5
    /\ ops = 0
    /\ pylist = <<>>
    /\ els = NoAttrs
    /\ system = NewLensSystem
    /\ last = StatusCall("none", 0, FALSE, Returned(NONE))

\* conn.GetUpdate(untraceable_allowed); the host recomputes the lens when
\* it answers 0
StatusGetUpdate(error, untraceable_allowed) ==
    /\ ops < MaxStatusOps
    /\ host' = IF error = 0 THEN HostGetUpdate(host) ELSE host
    /\ last' = StatusCall("GetUpdate", error, untraceable_allowed,
                          GetUpdate(error, untraceable_allowed))
    /\ ops' = ops + 1
    /\ UNCHANGED <<scan, phase, held, nextUid, pylist, els, system>>

\* conn.GetRefresh(untraceable_allowed)
StatusGetRefresh(error, untraceable_allowed) ==
    /\ ops < MaxStatusOps
    /\ host' = IF error = 0 THEN HostGetUpdate(host) ELSE host
    /\ last' = StatusCall("GetRefresh", error, untraceable_allowed,
                          GetRefresh(error, untraceable_allowed))
    /\ ops' = ops + 1
    /\ UNCHANGED <<scan, phase, held, nextUid, pylist, els, system>>

\* conn.LoadFile(filename, 0, untraceable_allowed); the file's lens replaces
\* the host's when the host answers 0
StatusLoadFile(file, error, untraceable_allowed) ==
    /\ ops < MaxStatusOps
    /\ host' = IF error = 0 THEN file ELSE host
    /\ last' = StatusCall("LoadFile", error, untraceable_allowed,
                          LoadFile(error, untraceable_allowed))
    /\ ops' = ops + 1
    /\ UNCHANGED <<scan, phase, held, nextUid, pylist, els, system>>

\* conn.SaveFile(filename, untraceable_allowed)
StatusSaveFile(error, untraceable_allowed) ==
    /\ ops < MaxStatusOps
    /\ last' = StatusCall("SaveFile", error, untraceable_allowed,
                          SaveFile(error, untraceable_allowed))
    /\ ops' = ops + 1
    /\ UNCHANGED <<host, scan, phase, held, nextUid, pylist, els, system>>

NextStatus ==
    \E error \in StatusCodes, untraceable_allowed \in BOOLEAN :
        \/ StatusGetUpdate(error, untraceable_allowed)
        \/ StatusGetRefresh(error, untraceable_allowed)
        \/ \E file \in StatusFiles : StatusLoadFile(file, error, untraceable_allowed)
        \/ StatusSaveFile(error, untraceable_allowed)

SpecStatus == InitStatus /\ [][NextStatus]_vars

\* ----------------------------------------------------- coordinate return
MaxChain == 3      \* surfaces between object and image when a chain is returned, at most
MaxReturnOps == 2  \* calls of return_to_coordinate_frame and GetUpdate, per run

\* a comment one character too long to follow "UNDO thickness "
LongLegComment == [i \in 1..(max_len - Len(UNDO_thickness) + 1) |-> "x"]

\* a surface of the chain as the set-up of the tests leaves it: a type, a
\* comment, a thickness, offsets, rotations and the order flag
Leg(type, comment, thickness, trans, flag) ==
    [type |-> type, comment |-> comment, thickness |-> thickness, trans |-> trans, flag |-> flag]
Legs ==
    {Leg("STANDARD", EMPTY, 0, <<0, 0, 0, 0, 0>>, 0),
     Leg("STANDARD", <<"M">>, 5, <<0, 0, 0, 0, 0>>, 0),
     Leg("COORDBRK", EMPTY, 0, <<0, 0, 0, 0, 0>>, 0),
     Leg("COORDBRK", LongLegComment, 3, <<0, 0, 0, 0, 0>>, 0),
     Leg("COORDBRK", EMPTY, 0, <<0, 2, 30, 0, 0>>, 0),
     Leg("COORDBRK", <<"C">>, 4, <<1, 0, 0, 0, 10>>, 1)}

\* the surface record of a leg, labelled l
leg_surf(u, l, leg) ==
    LET cells == [k \in {<<"data", 3>>} \cup {<<"aux", c>> : c \in 1..6} |->
                    IF k = <<"data", 3>> THEN leg.thickness
                    ELSE IF k[2] = 6 THEN leg.flag ELSE leg.trans[k[2]]]
    IN  [InitSurf(u, l) EXCEPT !.type = leg.type, !.comment = leg.comment,
                               !.val = IF leg.type = "COORDBRK" THEN cells
                                       ELSE Store(NoCells, <<"data", 3>>, leg.thickness)]

\* object, the legs, image
ChainHost(legs) ==
    <<InitSurf(1, 1)>> \o [i \in 1..Len(legs) |-> leg_surf(i + 1, i + 1, legs[i])]
        \o <<InitSurf(Len(legs) + 2, Len(legs) + 2)>>
ReturnHosts == {ChainHost(legs) : legs \in UNION {[1..k -> Legs] : k \in 2..MaxChain}}

\* labels random.randint returns, in the order drawn: labels no surface
\* carries, no two the same
FreshDraws(h) == [i \in 1..(3 * Len(h)) |-> Max(Labels(h)) + i]

ReturnCall(op, first, lst, include, r) ==
    [op |-> op, idx |-> 0, err |-> r.err, num |-> r.num, calls |-> <<>>,
     first_return_surf |-> first, last_return_surf |-> lst,
     include_null_transforms |-> include, inserted |-> r.w.inserted]
NoWalk == [w |-> Walk(<<>>, "none", <<>>, 0), err |-> "none", num |-> 0]

InitReturn ==
    /\ host \in ReturnHosts
    /\ scan = "lo"
    /\ phase = "ready"
    /\ held = NoHandle
    /\ nextUid = Len(host) + 1
    /\ ops = 0
    /\ pylist = <<>>
    /\ els = NoAttrs
    /\ system = NewLensSystem
    /\ last = ReturnCall("none", 0, 0, TRUE, NoWalk)

\* return_to_coordinate_frame(model, first, last,
\*                            include_null_transforms=include)
ReturnToCoordinateFrame(first, lst, include) ==
    /\ ops < MaxReturnOps
    /\ seq_len(host) <= MaxChain + 2
    /\ first < lst
    /\ lst < seq_len(host)
    /\ LET done(r) ==
               /\ host' = r.w.h
               /\ nextUid' = nextUid + Len(r.w.inserted)
               /\ last' = ReturnCall("return", first, lst, include, r)
       IN  done(return_to_coordinate_frame(host, first, lst, include, FreshDraws(host),
                                           nextUid, scan))
    /\ ops' = ops + 1
    /\ UNCHANGED <<scan, phase, held, pylist, els, system>>

\* conn.GetUpdate()
ReturnUpdate ==
    /\ ops < MaxReturnOps
    /\ host' = HostGetUpdate(host)
    /\ last' = ReturnCall("GetUpdate", 0, 0, TRUE, NoWalk)
    /\ ops' = ops + 1
    /\ UNCHANGED <<scan, phase, held, nextUid, pylist, els, system>>

NextReturn ==
    \/ \E first \in 0..(MaxChain + 1), lst \in 0..(MaxChain + 1), include \in BOOLEAN :
           ReturnToCoordinateFrame(first, lst, include)
    \/ ReturnUpdate

SpecReturn == InitReturn /\ [][NextReturn]_vars

\* ------------------------------------------------------------ properties
SeqEdits == {"insert_new", "append_new"}
HandleLive == held # NoHandle /\ held.uid \in Uids(host)
Stale == held # NoHandle /\ held.uid \notin Uids(host) /\ held.id \notin Labels(host)

\* C1: whenever insert_new / append_new returns, the sequence is exactly one
\* longer and the label carried by the new surface is a label no other
\* surface of the model carries.
C1_InsertLabelDistinct ==
    [][(last'.op \in SeqEdits /\ last'.err = "none") =>
        /\ Len(host') = Len(host) + 1
        /\ LET p == PosOfUid(host', nextUid)
           IN  /\ At(host', p).label # 0
               /\ \A q \in Positions(host') \ {p} :
                    At(host', q).label # At(host', p).label]_vars

\* C2: once the constructor has run, no two positions hold the same label.
C2_UniqueAfterInit ==
    last.op \in {"init", "init_empty"} => UniqueLabels(host)

\* C3: a handle whose surface is alive finds that surface's current
\* position, and a write through the handle changes that surface only.
C3_HandleDenotesItsSurface ==
    HandleLive =>
        /\ get_surf_num(host, held, scan) = PosOfUid(host, held.uid)
        /\ \A c \in Literals :
             LET r == comment_set_value(host, held, c, scan)
             IN  /\ r.err = "none"
                 /\ \A p \in Positions(host) :
                      At(r.h, p) # At(host, p) => p = PosOfUid(host, held.uid)

\* C4: del seq[i] with translated i >= 1 shortens the sequence by exactly
\* one, moves the surface that was at i+1 to i, and every surface left is a
\* surface that was there, label unchanged.
C4_DeleteShifts ==
    [][(last'.op = "delitem" /\ last'.num >= 1) =>
        /\ last'.err = "none"
        /\ Len(host') = Len(host) - 1
        /\ (last'.num + 1 \in Positions(host) =>
              At(host', last'.num) = At(host, last'.num + 1))
        /\ \A p \in Positions(host') : \E q \in Positions(host) :
              At(host', p) = At(host, q)]_vars

\* C5: after every mirrored step the comments read from the sequence in
\* position order are the Python list, and the lengths agree.
C5_SameAsList ==
    /\ seq_len(host) = Len(pylist)
    /\ \A id \in RandLabels : comments_from(host, 0, id, scan) = pylist

\* requests that store a caller-supplied field, and the type store
FieldStores == {"SetSurfaceData,1"}
TypeStores == {"SetSurfaceData,0"}

\* C11: in the requests of one insert_new / append_new the type store comes
\* before every store of a caller-supplied field.
C11_TypeBeforeFields ==
    [][(last'.op \in SeqEdits /\ last'.err = "none") =>
        \A i, j \in 1..Len(last'.calls) :
            (last'.calls[i] \in TypeStores /\ last'.calls[j] \in FieldStores) => i < j]_vars

\* C6: for every valid index i, seq[i] and seq[i - len] are handles with the
\* same label and the same class, whatever the allocator returns.
C6_NegativeIndexSameSurface ==
    phase = "ready" =>
        \A i \in Positions(host) : \A id1 \in RandLabels, id2 \in RandLabels :
            LET r1 == getitem(host, i, id1)
                r2 == getitem(r1.h, i - seq_len(r1.h), id2)
            IN  /\ r2.ret.id = r1.ret.id
                /\ r2.ret.cls = r1.ret.cls
                /\ r2.ret.uid = r1.ret.uid
                /\ r2.h = r1.h

C6_Witness ==
    /\ last.op = "getitem"
    /\ last.idx < 0
    /\ last.num >= 1
    /\ held.uid = At(host, last.num).uid
    /\ Len(host) >= 3

\* C7 as stated: an index that translates below 1 makes del / insert_new
\* raise IndexError with no request sent and the model unchanged.
C7_NoRequestBeforeIndexError ==
    [][(last'.op \in SeqEdits \cup {"delitem"} /\ last'.num < 1) =>
        /\ last'.err = "IndexError"
        /\ host' = host
        /\ last'.calls = <<>>]_vars

\* C7 amended: such a call raises IndexError with the model unchanged and
\* before any request that changes it: no request for i = 0, and for a
\* negative i only the GetSystem query the index translation needs.
C7_IndexErrorBeforeModelChange ==
    [][(last'.op \in SeqEdits \cup {"delitem"} /\ last'.num < 1) =>
        /\ last'.err = "IndexError"
        /\ host' = host
        /\ last'.calls = IF last'.idx < 0 THEN <<"GetSystem">> ELSE <<>>]_vars

C7_Witness ==
    /\ last.op \in {"delitem", "insert_new"}
    /\ last.err = "IndexError"
    /\ last.idx < 0
    /\ last.calls = <<"GetSystem">>

\* accesses through a handle: what each raises and the model it leaves
AccessResults(h, hd, sc) ==
    {[err |-> IF get_surf_num(h, hd, sc) < 0 THEN "SurfaceLabelError" ELSE "none",
      h |-> h, local |-> FALSE],
     [err |-> comment_get_comment_and_tag(h, hd, sc).err, h |-> h, local |-> FALSE],
     [err |-> remove(h, hd, sc).err, h |-> remove(h, hd, sc).h, local |-> FALSE]}
    \cup {[err |-> comment_set_value(h, hd, c, sc).err,
           h |-> comment_set_value(h, hd, c, sc).h, local |-> FALSE] : c \in Literals}
    \cup {[err |-> comment_set_comment_and_tag(h, hd, ct[1], ct[2], sc).err,
           h |-> comment_set_comment_and_tag(h, hd, ct[1], ct[2], sc).h,
           local |-> Len(encode_comment_and_tag(ct[1], ct[2])) > max_len]
            : ct \in TaggedWrites}

C9_LengthAtLeastTwo ==
    phase = "ready" => (seq_len(host) = HostGetSystem(host) + 1 /\ seq_len(host) >= 2)

\* C10: SurfaceSequence(conn, empty=True) over n surfaces leaves exactly the
\* original object surface and the original image surface.
C10_EmptyKeepsSentinels ==
    last.op = "init_empty" =>
        /\ Len(host) = 2
        /\ At(host, 0).uid = 1
        /\ At(host, 1).uid = last.num

\* the handle seq[p] of a labelled position
HandleAt(p) == getitem(host, p, 1).ret
\* what get_comment_and_tag returns, as a pair
PairOf(g) == <<g.comment, g.tag>>
Stored(p) == comment_get_comment_and_tag(host, HandleAt(p), scan)
Fits(c, t) == Len(encode_comment_and_tag(c, t)) <= max_len
\* c ends in a group #...# with at least one character and no # inside
EndsInGroup(c) ==
    \E i \in 1..Len(c) :
        /\ Len(c) - i >= 2
        /\ c[i] = "#"
        /\ c[Len(c)] = "#"
        /\ \A m \in (i + 1)..(Len(c) - 1) : c[m] # "#"
NoTrailingSpace(c) == c = EMPTY \/ c[Len(c)] \notin WhiteSpace
IsTag(t) == t # NONE /\ t # EMPTY /\ \A i \in 1..Len(t) : t[i] # "#"

\* C13 as stated: whenever the encoding fits, set_comment_and_tag(c, t)
\* followed by get_comment_and_tag() returns exactly (c, t).
C13_RoundTripAll ==
    (last.op = "set_comment_and_tag" /\ Fits(last.comment, last.tag)) =>
        /\ last.err = "none"
        /\ PairOf(Stored(last.idx)) = <<last.comment, last.tag>>

\* C13 amended: the round trip returns exactly (c, t) when the encoding
\* fits, c has no trailing white space, and either t is a non-empty tag
\* without '#', or t is absent and c does not itself end in a #...# group.
C13_RoundTripPlain ==
    (/\ last.op = "set_comment_and_tag"
     /\ Fits(last.comment, last.tag)
     /\ NoTrailingSpace(last.comment)
     /\ IsTag(last.tag) \/ (last.tag = NONE /\ ~EndsInGroup(last.comment))) =>
        /\ last.err = "none"
        /\ PairOf(Stored(last.idx)) = <<last.comment, last.tag>>

C13_Witness ==
    /\ last.op = "set_comment_and_tag"
    /\ last.err = "none"
    /\ last.tag = <<"t">>
    /\ PairOf(Stored(last.idx)) = <<(<<"a">>), (<<"t">>)>>
    /\ At(host, last.idx).comment = <<"a", " ", "#", "t", "#">>

CommentWrites == {"set_comment_and_tag", "set_value", "set_tag"}
\* the text a comment write is about to store, given what is stored now
TextToStore(l, g) ==
    encode_comment_and_tag(IF l.op = "set_tag" THEN g.comment ELSE l.comment,
                           IF l.op = "set_value" THEN g.tag ELSE l.tag)
StoreRequests == {"SetSurfaceData,1"}
ReadPair == <<"FindLabel", "GetSurfaceData,1">>

\* C14 as stated: a write whose text is longer than 32 characters raises
\* ValueError before any request is sent and leaves the model unchanged; a
\* text of 32 characters or less is stored; no stored comment is longer
\* than 32 characters.
C14_NothingSentWhenTooLong ==
    [][last'.op \in CommentWrites =>
        /\ Len(TextToStore(last', Stored(last'.idx))) > max_len =>
              (last'.err = "ValueError" /\ host' = host /\ last'.calls = <<>>)
        /\ Len(TextToStore(last', Stored(last'.idx))) <= max_len =>
              (last'.err = "none"
               /\ At(host', last'.idx).comment = TextToStore(last', Stored(last'.idx)))
        /\ \A p \in Positions(host') : Len(At(host', p).comment) <= max_len]_vars

\* C14 amended: such a write raises ValueError before any store request is
\* sent and leaves the model unchanged: set_comment_and_tag sends nothing,
\* the value and tag setters send only the read of the stored comment; a
\* text of 32 characters or less is stored; no stored comment is longer
\* than 32 characters.
C14_NothingStoredWhenTooLong ==
    [][last'.op \in CommentWrites =>
        /\ Len(TextToStore(last', Stored(last'.idx))) > max_len =>
              /\ last'.err = "ValueError"
              /\ host' = host
              /\ last'.calls = IF last'.op = "set_comment_and_tag" THEN <<>> ELSE ReadPair
        /\ Len(TextToStore(last', Stored(last'.idx))) <= max_len =>
              (last'.err = "none"
               /\ At(host', last'.idx).comment = TextToStore(last', Stored(last'.idx)))
        /\ \A p \in Positions(host') : Len(At(host', p).comment) <= max_len]_vars

C14_Witness ==
    /\ last.op = "set_tag"
    /\ last.err = "ValueError"
    /\ last.tag = <<"t">>
    /\ At(host, last.idx).comment = Fill(max_len - 3)

\* the pair read through seq[p] in model h
StoredIn(h, p) == comment_get_comment_and_tag(h, getitem(h, p, 1).ret, scan)

\* C15 as stated: a value write that is accepted leaves the tag as it was,
\* a tag write that is accepted leaves the comment as it was.
C15_SettersKeepOtherPart ==
    [][/\ (last'.op = "set_value" /\ last'.err = "none") =>
            StoredIn(host', last'.idx).tag = Stored(last'.idx).tag
       /\ (last'.op = "set_tag" /\ last'.err = "none") =>
            StoredIn(host', last'.idx).comment = Stored(last'.idx).comment]_vars

\* C15 amended: a value write keeps the tag when a tag is stored or the
\* new comment does not end in a #...# group; a tag write keeps the comment
\* when the new tag is non-empty without '#', or when it removes the tag
\* and the stored comment does not itself end in a #...# group.
C15_SettersKeepOtherPartPlain ==
    [][/\ (/\ last'.op = "set_value"
           /\ last'.err = "none"
           /\ Stored(last'.idx).tag # NONE \/ ~EndsInGroup(last'.comment)) =>
            StoredIn(host', last'.idx).tag = Stored(last'.idx).tag
       /\ (/\ last'.op = "set_tag"
           /\ last'.err = "none"
           /\ \/ IsTag(last'.tag)
              \/ (last'.tag \in {NONE, EMPTY} /\ ~EndsInGroup(Stored(last'.idx).comment))) =>
            StoredIn(host', last'.idx).comment = Stored(last'.idx).comment]_vars

C15_Witness ==
    /\ last.op = "set_value"
    /\ last.err = "none"
    /\ last.comment = <<"a">>
    /\ PairOf(Stored(last.idx)) = <<(<<"a">>), (<<"t">>)>>

\* the comment each surface of model h shows through comment.value
VisibleComments(h) == [p \in Positions(h) |-> StoredIn(h, p).comment]

\* C16: after els.<name> = seq[p] has returned, the name is the tag of that
\* surface, and a NamedElements built over the sequence has under that name
\* a handle with the label of the assigned surface; neither the assignment
\* nor the build changes the comment any surface shows.
C16_NameFindsAssigned ==
    [][(last'.op = "setattr" /\ last'.err = "none") =>
          /\ StoredIn(host', last'.idx).tag = last'.tag
          /\ VisibleComments(host') = VisibleComments(host)
          /\ \A id \in RandLabels :
                 /\ named_init(host', id, scan).err = "none"
                 /\ last'.tag \in DOMAIN named_init(host', id, scan).els
                 /\ named_init(host', id, scan).els[last'.tag].id = held'.id
                 /\ VisibleComments(named_init(host', id, scan).h) = VisibleComments(host)]_vars

\* the fields of a surface record that are marked variable through vary()
Varied(surf) ==
    {f \in Toroidal : f.can_optimise /\ Lookup(surf.solve, f.solve_code, <<0>>) = <<1>>}
SolveOf(h, n, f) == HostGetSolve(h, n, f.solve_code)

\* C12: fix_variables() on a surface with exactly k fields marked variable
\* through vary() returns k entries, whatever literals were assigned to
\* other fields before, and a fix_variables() right after it returns none.
C12_FixVariablesCountsVaried ==
    [][(last'.op = "fix_variables" /\ last'.err = "none") =>
          /\ Len(last'.ret) = Cardinality(Varied(At(host, last'.num)))
          /\ fix_variables(host', held', scan).ret = <<>>]_vars

LiteralStores == {f.set : f \in Toroidal}
SolveRequests(calls) == {i \in 1..Len(calls) : calls[i] = "SetSolve"}
StoreRequestsIn(calls) == {i \in 1..Len(calls) : calls[i] \in LiteralStores}
\* model h with the solve entries of every surface taken from model g
WithSolvesOf(h, g) == [q \in 1..Len(h) |-> [h[q] EXCEPT !.solve = g[q].solve]]

\* C17: set_value with a PickupExpression runs the pickup-install protocol
\* only: no request that stores a literal is sent, no cell changes, and the
\* one solve request sent, if any, installs the pickup and not the fixed
\* solve of the field.
C17_PickupOnlyInstalls ==
    [][(last'.op = "set_value" /\ IsPickupExpression(last'.value)) =>
          /\ StoreRequestsIn(last'.calls) = {}
          /\ WithSolvesOf(host', host) = host
          /\ IF last'.err = "none"
             THEN /\ last'.calls = <<"FindLabel", "FindLabel", "SetSolve">>
                  /\ SolveOf(host', last'.num, last'.field)[1]
                        = last'.field.pickup_conf.solve_code
                  /\ SolveOf(host', last'.num, last'.field)[1] # last'.field.fix_code
             ELSE host' = host /\ SolveRequests(last'.calls) = {}]_vars

C17_Witness ==
    /\ last.op = "set_value"
    /\ IsPickupExpression(last.value)
    /\ last.err = "none"
    /\ last.field = ThicknessParameter
    /\ SolveOf(host, last.num, ThicknessParameter) = <<5, SourcePosition, 3, 0>>

\* C18: a literal assigned to a field that has a fixed-solve code first
\* sets the solve of the field to that code and then stores the literal;
\* afterwards the solve is the fixed one, not the pickup solve of the field
\* and, when the field can be optimised, not the variable solve, and the
\* field reads back the literal.
C18_LiteralFixesFirst ==
    [][(/\ last'.op = "set_value"
        /\ ~IsPickupExpression(last'.value)
        /\ last'.field.fix_code # NoCode) =>
          /\ last'.err = "none"
          /\ last'.calls = <<"FindLabel", "FindLabel", "SetSolve", "FindLabel",
                             last'.field.set>>
          /\ SolveOf(host', last'.num, last'.field) = <<last'.field.fix_code>>
          /\ last'.field.fix_code # last'.field.pickup_conf.solve_code
          /\ last'.field.can_optimise => last'.field.fix_code # 1
          /\ py_eq(param_get_value(host', held', last'.field, scan).ret, last'.value)]_vars

C18_Witness ==
    /\ last.op = "set_value"
    /\ ops = 2
    /\ last.field = ThicknessParameter
    /\ last.value = Py("int", 30)
    /\ SolveOf(host, last.num, ThicknessParameter) = <<0>>
    /\ param_get_value(host, held, ThicknessParameter, scan).ret = Py("float", 30)

\* C19: vary() on a field that cannot be optimised raises
\* NotImplementedError with no request sent and the model unchanged; on a
\* field that can be optimised it sets the solve of that field of that
\* surface to the variable code 1 and changes nothing else.
C19_VaryOnlyIfOptimisable ==
    [][last'.op = "vary" =>
          IF last'.field.can_optimise
          THEN /\ last'.err = "none"
               /\ host' = [host EXCEPT ![last'.num + 1].solve =
                               Store(@, last'.field.solve_code, <<1>>)]
          ELSE /\ last'.err = "NotImplementedError"
               /\ last'.calls = <<>>
               /\ host' = host]_vars

C19_Witness ==
    /\ last.op = "vary"
    /\ last.field = SemiDiameterParameter
    /\ last.err = "NotImplementedError"
    /\ ops = 2

\* C20: a pickup with scale # 1 on a field whose format has no scale, or
\* with offset # 0 on a field whose format has no offset, raises TypeError
\* with no request sent and the model unchanged.
C20_UnsupportedPickupRaises ==
    [][(/\ last'.op = "set_value"
        /\ IsPickupExpression(last'.value)
        /\ last'.field.pickup_conf # NoPickup
        /\ \/ ~last'.field.pickup_conf.has_scale /\ last'.value.scale # 1
           \/ ~last'.field.pickup_conf.has_offset /\ last'.value.offset # 0) =>
          /\ last'.err = "TypeError"
          /\ last'.calls = <<>>
          /\ host' = host]_vars

C20_Witness ==
    /\ last.op = "set_value"
    /\ IsPickupExpression(last.value)
    /\ last.field = CurvatureParameter
    /\ last.value.offset = 1
    /\ last.err = "TypeError"
    /\ host = ParamHost

\* C29: insert_new(i, V) with i >= 1, i >= len(seq) included, puts a label
\* and the type V on the surface it inserted and leaves the label and the
\* type of every surface that was there before, the image included, as
\* they were.
C29_InsertLeavesOthers ==
    [][(last'.op = "insert_new" /\ last'.idx >= 1 /\ last'.err = "none") =>
          /\ nextUid \in Uids(host')
          /\ At(host', PosOfUid(host', nextUid)).label \in RandLabels
          /\ At(host', PosOfUid(host', nextUid)).type \in Variants
          /\ \A u \in Uids(host) :
                 /\ u \in Uids(host')
                 /\ At(host', PosOfUid(host', u)).label = At(host, PosOfUid(host, u)).label
                 /\ At(host', PosOfUid(host', u)).type = At(host, PosOfUid(host, u)).type]_vars

\* C21: on a field whose pickup format has no column reference, a pickup
\* whose source is another field, of the same table or of another one,
\* raises TypeError and no solve is installed.
C21_OtherFieldRaises ==
    [][(/\ last'.op = "set_value"
        /\ IsPickupExpression(last'.value)
        /\ last'.field.pickup_conf # NoPickup
        /\ ~last'.field.pickup_conf.has_col_ref
        /\ last'.value.src_param # last'.field) =>
          /\ last'.err = "TypeError"
          /\ host' = host]_vars

\* the modifiers C28 describes for a pickup e on field f
ScaleThenOffset(f, e) ==
    IF f.pickup_conf.has_scale /\ f.pickup_conf.has_offset THEN <<e.scale, e.offset>>
    ELSE IF f.pickup_conf.has_scale THEN <<e.scale>>
    ELSE IF f.pickup_conf.has_offset THEN <<e.offset>>
    ELSE <<>>
OffsetThenScale(f, e) ==
    IF f.pickup_conf.has_scale /\ f.pickup_conf.has_offset THEN <<e.offset, e.scale>>
    ELSE ScaleThenOffset(f, e)
ColumnReference(f, e) ==
    IF f.pickup_conf.has_col_ref THEN <<e.src_param.solve_code + 1>> ELSE <<>>

\* C28: the solve request of an installed pickup is made for the target's
\* position and solve code and carries the pickup code of the format, the
\* source's position, then scale and offset as far as the format has them
\* (offset before scale for a parameter-table field), then the source's
\* solve code + 1 when the format has a column reference.
C28_SolveRequestArguments ==
    [][(last'.op = "set_value" /\ IsPickupExpression(last'.value) /\ last'.err = "none") =>
          host' = HostSetSolve(host, HostFindLabel(host, held'.id, scan),
                      last'.field.solve_code,
                      <<last'.field.pickup_conf.solve_code,
                        HostFindLabel(host, last'.value.surface.id, scan)>>
                      \o (IF last'.field.kind = "aux"
                          THEN OffsetThenScale(last'.field, last'.value)
                          ELSE ScaleThenOffset(last'.field, last'.value))
                      \o ColumnReference(last'.field, last'.value))]_vars

C28_Witness ==
    /\ last.op = "set_value"
    /\ last.err = "none"
    /\ last.field = radius_of_rotation
    /\ SolveOf(host, 1, radius_of_rotation) = <<2, SourcePosition, 0, 3, 2>>

\* the value read through seq[p].<f>.value in model h
ValueIn(h, p, f) == param_get_value(h, ParamHandle(h, p), f, scan).ret
\* target.value == k * source.value + b after the recompute that took
\* model h to model g, for the pickup assignment recorded in l
PickupHolds(g, l) ==
    py_eq(ValueIn(g, l.idx, l.field),
          Py("float", l.value.scale * py_number(ValueIn(g, SourcePosition, l.field))
                      + l.value.offset))
OwnFieldPickup(l, f) ==
    /\ l.op = "set_value"
    /\ IsPickupExpression(l.value)
    /\ l.field = f
    /\ l.value.src_param = f

\* C22 as stated: on thickness and on semi-diameter, assigning
\* k * src.linked() + b is accepted for every k and b, and after a
\* recompute target.value == k * source.value + b.
C22_ScaleAndOffsetBoth ==
    [][/\ (OwnFieldPickup(last', ThicknessParameter)
           \/ OwnFieldPickup(last', SemiDiameterParameter)) => last'.err = "none"
       /\ (/\ last'.op = "GetUpdate"
           /\ OwnFieldPickup(last, ThicknessParameter)
              \/ OwnFieldPickup(last, SemiDiameterParameter)) => PickupHolds(host', last)]_vars

\* C22 amended: thickness takes scale and offset, semi-diameter scale
\* only.  k * src.linked() + b on thickness, and k * src.linked() on
\* semi-diameter, are accepted and after a recompute target.value is
\* k * source.value + b; on semi-diameter b # 0 raises TypeError and
\* leaves the model as it was.
C22_ScaleAndOffsetThickness ==
    [][/\ OwnFieldPickup(last', ThicknessParameter) => last'.err = "none"
       /\ OwnFieldPickup(last', SemiDiameterParameter) =>
             IF last'.value.offset = 0 THEN last'.err = "none"
             ELSE last'.err = "TypeError" /\ host' = host
       /\ (/\ last'.op = "GetUpdate"
           /\ last.err = "none"
           /\ OwnFieldPickup(last, ThicknessParameter)
              \/ OwnFieldPickup(last, SemiDiameterParameter)) => PickupHolds(host', last)]_vars

C22_Witness ==
    /\ last.op = "GetUpdate"
    /\ SolveOf(host, 1, ThicknessParameter) = <<5, SourcePosition, 1, 1>>
    /\ ValueIn(host, 1, ThicknessParameter) = Py("float", 31)
    /\ ValueIn(host, SourcePosition, ThicknessParameter) = Py("float", 30)

\* the value scale * x + offset of an expression at source value x
ExprAt(e, x) == FAdd(FMul(e.scale, x), e.offset)
\* the arithmetic of an operation applied to the number v
Arith(op, v, c) ==
    CASE op \in {"add", "radd"} -> FAdd(v, c)
      [] op = "sub" -> FSub(v, c)
      [] op = "rsub" -> FSub(c, v)
      [] op \in {"mul", "rmul"} -> FMul(v, c)
      [] op \in {"div", "truediv"} -> FDiv(v, c)
      [] op = "neg" -> FNeg(v)
      [] OTHER -> v
SourceValues == {Num(0), Num(1), Num(0 - 2), Frac(1, 3)}

\* C23: every operation e+c, c+e, e-c, c-e, e*c, c*e, e/c, -e, +e returns
\* an expression whose scale * x + offset is the same arithmetic applied to
\* the operand's scale * x + offset, for every source value x; + and -
\* of a constant change the offset only; no operation changes its operand.
C23_LinearModel ==
    [][(last'.op \in ExprOps /\ ~(last'.op \in {"div", "truediv"} /\ last'.c = Num(0))) =>
          /\ last'.err = "none"
          /\ \A x \in SourceValues :
                 ExprAt(last'.expr, x) = Arith(last'.op, ExprAt(last.expr, x), last'.c)
          /\ last'.op \in {"add", "radd", "sub"} => last'.expr.scale = last.expr.scale
          /\ last'.operand = last.expr]_vars

\* C24: setting a setting that can be set makes the next read of it return
\* the value set and leaves what every other setting reads as it was;
\* setting numsurfs or nonaxialflag raises NotImplementedError and changes
\* nothing.
C24_SetOneSetting ==
    [][last'.op = "set" =>
          IF last'.param.name \in {"numsurfs", "nonaxialflag"}
          THEN last'.err = "NotImplementedError" /\ system' = system /\ host' = host
          ELSE /\ last'.err = "none"
               /\ system_get(host', system', last'.param) = last'.value
               /\ \A q \in SystemParameters \ {last'.param} :
                      system_get(host', system', q) = system_get(host, system, q)]_vars

\* C30: in GetUpdate, GetRefresh, LoadFile and SaveFile a result code 0
\* returns without raising; -999 raises IOError in LoadFile and SaveFile;
\* any other code raises Untraceable when untraceable_allowed is False and
\* raises nothing when untraceable_allowed is True.
C30_StatusOutcomes ==
    last.op \in {"GetUpdate", "GetRefresh", "LoadFile", "SaveFile"} =>
        last.err = IF last.code = 0 THEN "none"
                   ELSE IF last.code = -999 /\ last.op \in {"LoadFile", "SaveFile"}
                        THEN "IOError"
                   ELSE IF ~last.allowed THEN "Untraceable"
                   ELSE "none"

\* C25: for every range first < last and either setting of
\* include_null_transforms, ranges of null legs included,
\* return_to_coordinate_frame returns, and the number it returns is the
\* position at which the surface the host inserted last now is.
C25_ReturnsLastSynthesized ==
    [][last'.op = "return" =>
          /\ last'.err = "none"
          /\ nextUid' > nextUid
          /\ last'.num = PosOfUid(host', nextUid' - 1)]_vars

\* the synthesized surfaces a range calls for with null legs included, in
\* the order of the walk from position p down to first: [kind, src]
RECURSIVE expected_chain(_, _, _)
expected_chain(h, p, first) ==
    IF p < first THEN <<>>
    ELSE (IF At(h, p).type = "COORDBRK"
          THEN <<[kind |-> "thickness", src |-> p], [kind |-> "transform", src |-> p]>>
          ELSE <<[kind |-> "simple", src |-> p]>>) \o expected_chain(h, p - 1, first)
\* the solve of a pickup from surface src with scale -1 and offset 0: on
\* the thickness, and on offset or rotation i
thickness_pickup(src) == <<5, src, 0 - 1, 0>>
transform_pickup(src, i) == <<2, src, 0, 0 - 1, i + 5>>
\* surface record s is the synthesized surface that undoes e in host h
Undoes(s, h, e) ==
    /\ s.type = "COORDBRK"
    /\ e.kind \in {"thickness", "simple"} =>
           /\ s.solve[1] = thickness_pickup(e.src)
           /\ \A i \in 1..5 : (i + 4) \notin DOMAIN s.solve
    /\ e.kind = "simple" => Lookup(s.val, <<"aux", 6>>, 0) = 0
    /\ e.kind = "transform" =>
           /\ \A i \in 1..5 : s.solve[i + 4] = transform_pickup(e.src, i)
           /\ 1 \notin DOMAIN s.solve
           /\ (Lookup(s.val, <<"aux", 6>>, 0) = 0) # (Lookup(At(h, e.src).val, <<"aux", 6>>, 0) = 0)

\* surface records equal in type, comment, cells and solves
SameButLabel(s, t) == [s EXCEPT !.label = 0] = [t EXCEPT !.label = 0]

\* C27: with include_null_transforms=True and the default factory, a range
\* of c coordinate breaks and m other surfaces gets exactly 2c+m new
\* coordinate breaks at positions last+1 .. last+2c+m in the order of the
\* walk from last down to first (thickness step, then offset/rotation step
\* with the order flag inverted; one thickness step for another surface),
\* every undone value is a pickup with scale -1 and offset 0 from the same
\* field of the original, and the surfaces of [first, last] are as before.
C27_ChainOfPickups ==
    [][(last'.op = "return" /\ last'.include_null_transforms) =>
          LET chain == expected_chain(host, last'.last_return_surf, last'.first_return_surf)
              lst == last'.last_return_surf
          IN  /\ last'.err = "none"
              /\ Len(host') = Len(host) + Len(chain)
              /\ \A j \in 1..Len(chain) :
                     /\ At(host', lst + j).uid = nextUid + j - 1
                     /\ Undoes(At(host', lst + j), host, chain[j])
              /\ \A p \in 0..lst : SameButLabel(At(host', p), At(host, p))
              /\ \A p \in (lst + 1)..(Len(host) - 1) :
                     SameButLabel(At(host', p + Len(chain)), At(host, p))]_vars

\* the frame after the chain return_to_coordinate_frame synthesizes with
\* null legs included, once the host has recomputed the pickups
full_frame(h, first, lst, u, order) ==
    LET framed(r) == frame_at(HostGetUpdate(r.w.h), lst + Len(r.w.inserted) + 1)
    IN  framed(return_to_coordinate_frame(h, first, lst, TRUE, FreshDraws(h), u, order))

\* C26: once the host has recomputed the pickups, the frame after the last
\* synthesized surface is the frame in which the surface at first is
\* placed; with include_null_transforms=False no synthesized surface is a
\* null leg and that frame is the one the call with
\* include_null_transforms=True ends in.
C26_FrameRestored ==
    [][last'.op = "return" =>
          LET h2 == HostGetUpdate(host')
              lst == last'.last_return_surf
              n == nextUid' - nextUid
          IN  /\ frame_at(h2, lst + n + 1) = frame_at(h2, last'.first_return_surf)
              /\ ~last'.include_null_transforms =>
                     /\ \A j \in 1..n : push_all(<<>>, motions(At(h2, lst + j)), 1) # <<>>
                     /\ frame_at(h2, lst + n + 1)
                            = full_frame(host, last'.first_return_surf, lst, nextUid, scan)]_vars

====
